---- MODULE Spec2Model ----
(***************************************************************************)
(* Model of drmemory/alloc_drmem.c: the delayed-free quarantine, the       *)
(* shared callstack table, the allocator event handlers, the mmap table,   *)
(* the signal-frame bookkeeping and the recognizer of unaddressable        *)
(* accesses that are not errors.                                           *)
(*                                                                         *)
(* Addresses are small naturals; NULL is 0.  The delayed-free code is      *)
(* modelled as built for WINDOWS (delay_free_t has a heap field and        *)
(* client_handle_heap_destroy exists); a LINUX run is a run in which       *)
(* client_handle_heap_destroy is never called.                             *)
(***************************************************************************)
EXTENDS Integers, Sequences, FiniteSets, TLC

\* ------------------------------------------------------------------ bounds
MaxAddr == 6
MaxDelayFrees == 2
MaxPcs == 3
MaxRecords == 4
MaxMem == 3
MaxSignals == 2
MaxFrame == 2

NULL == 0

Addr == 1..MaxAddr
Heaps == {"H1", "H2"}
NoHeap == "none"

SHADOW_UNADDRESSABLE == "UNADDRESSABLE"
SHADOW_UNDEFINED == "UNDEFINED"
SHADOW_DEFINED == "DEFINED"

VARIABLES
    options,            \* options.leaks_only, .shadowing, .delay_frees, .redzone_size
    shadow,             \* shadow memory: one tag per application byte
    delay_free_list,    \* array [0 .. delay_frees) of delay_free_t
    delay_free_head,
    delay_free_fill,
    delay_free_tree,    \* set of nodes [base, size, client]
    asserts,            \* messages of the ASSERTs that have fired
    recent,             \* history: FIFO of the blocks given to the quarantine
    last,               \* history: the last handler call and what it returned
    callstacks,         \* heap of packed_callstack_t objects, by handle
    alloc_stack_table,  \* hashtable: the handles it stores (key = payload)
    malloc_table,       \* alloc.c: number of live allocation records per client data
    delay_free_lock,    \* owner of delay_free_lock, or NoThread
    mmap_tree_lock,     \* owner of mmap_tree_lock, or NoThread
    thr,                \* per thread: the handler it is in and that handler's locals
    mmap_tree,          \* set of nodes [base, size, client] of anonymous mappings
    live,               \* the allocator's live blocks, each [base, size]
    freed,              \* history: bytes freed and not allocated again since
    cpt,                \* client_per_thread_t of the thread that takes signals
    sigs,               \* history: the signals delivered and not yet returned from
    delivered,          \* history: number of signals delivered so far
    fault               \* the unaddressable access handed to the exception recognizer

qvars == <<options, shadow, delay_free_list, delay_free_head,
           delay_free_fill, delay_free_tree, recent>>

pvars == <<callstacks, alloc_stack_table, malloc_table>>

cvars == <<delay_free_lock, mmap_tree_lock, thr>>

hvars == <<live, freed>>

mvars == <<mmap_tree, hvars>>

svars == <<cpt, sigs, delivered>>

vars == <<qvars, pvars, cvars, mvars, svars, fault, asserts, last>>

\* ------------------------------------------------------------ rbtree
\* redblack.c is not among the sources: an interval tree is the set of its
\* nodes, each [base, size, client].
Overlap(lo1, hi1, lo2, hi2) == lo1 < hi2 /\ lo2 < hi1

rb_overlaps_nodes(tree, start, end) ==
    {n \in tree : Overlap(n.base, n.base + n.size, start, end)}

rb_insert(tree, base, size, client) ==
    IF rb_overlaps_nodes(tree, base, base + size) = {}
    THEN tree \cup {[base |-> base, size |-> size, client |-> client]}
    ELSE tree

rb_find(tree, base) == {n \in tree : n.base = base}

rb_delete(tree, nodes) == tree \ nodes

\* ------------------------------------------------------------ shadow
shadow_set_range(sh, start, end, val) ==
    [a \in Addr |-> IF start <= a /\ a < end THEN val ELSE sh[a]]

\* ------------------------------------------------------------ blocks
Sizes == {1, 2}
RedzoneSizes == {0, 1}

\* client_handle_free: "Store real base and real size: i.e., including redzones"
real_size(base, size, real_base) ==
    IF base # real_base
    THEN size + 2 * options.redzone_size
    ELSE size

RealEnd(b) == b.real_base + real_size(b.base, b.size, b.real_base)

\* A block as alloc.c hands it to client_handle_free: allocated with redzones
\* (base = real_base + redzone_size), or with base = real_base (allocated
\* before the tool took over, or any block when redzone_size is 0).
\* Each heap owns its own part of the address space.
HeapOf(a) == IF a <= MaxAddr \div 2 THEN "H1" ELSE "H2"

Blocks ==
    {b \in [base : Addr, size : Sizes, real_base : Addr, heap : Heaps] :
        /\ \/ b.base = b.real_base
           \/ options.redzone_size > 0 /\ b.base = b.real_base + options.redzone_size
        /\ RealEnd(b) <= MaxAddr + 1
        /\ b.heap = HeapOf(b.real_base)
        /\ b.heap = HeapOf(RealEnd(b) - 1)}

NoBlock(h) == [base |-> NULL, size |-> 0, real_base |-> NULL, heap |-> h]

NoHit == [res |-> FALSE, free_start |-> NULL, free_end |-> NULL]

\* Blocks the underlying allocator still holds for the quarantine: their real
\* free has been delayed and their heap still exists.
Quarantined == {recent[i].blk : i \in {j \in 1..Len(recent) : ~recent[j].swept}}

\* The allocator never has two blocks that overlap, so the block being freed
\* is disjoint from every block whose real free is still pending.
Available(b) ==
    \A h \in Quarantined : ~Overlap(b.real_base, RealEnd(b), h.real_base, RealEnd(h))

\* ------------------------------------------------------------ callstacks
\* callstack.c and hashtable.c are not among the sources.  A packed callstack
\* is an object with a content and a reference count; NoPcs marks a handle
\* whose storage is not allocated.
Pcs == 1..MaxPcs
Contents == {"S1", "S2"}
NoPcs == [content |-> "none", refcount |-> 0]

Allocated(cs, h) == cs[h] # NoPcs

\* packed_callstack_record: a new object with one reference
packed_callstack_record(cs, h, content) ==
    [cs EXCEPT ![h] = [content |-> content, refcount |-> 1]]

packed_callstack_add_ref(cs, h) ==
    [cs EXCEPT ![h].refcount = @ + 1]

\* packed_callstack_free: drops one reference, frees the storage at 0 and
\* returns the new count
packed_callstack_free_count(cs, h) == cs[h].refcount - 1

packed_callstack_free(cs, h) ==
    IF cs[h].refcount - 1 = 0
    THEN [cs EXCEPT ![h] = NoPcs]
    ELSE [cs EXCEPT ![h].refcount = @ - 1]

\* hashtable with packed_callstack_cmp: keys are equal when contents are
hashtable_lookup(cs, table, key) == {e \in table : cs[e].content = cs[key].content}

\* mmap_tree = rb_tree_create(NULL); the allocator has handed out nothing
\* the thread's client data is zeroed and no signal has been delivered
NoSignals ==
    /\ cpt = [signal_xsp |-> NULL, sigframe_top |-> NULL,
              sigaltstack |-> NULL, sigaltsize |-> 0,
              prev_sigaltstack |-> NULL, prev_sigaltsize |-> 0,
              pre_callback_esp |-> NULL]
    /\ sigs = <<>>
    /\ delivered = 0

\* no unaddressable access is being examined
NoFault == fault = [pending |-> FALSE]

MmapEmpty ==
    /\ mmap_tree = {}
    /\ live = {}
    /\ freed = {}

PoolEmpty ==
    /\ callstacks = [h \in Pcs |-> NoPcs]
    /\ alloc_stack_table = {}
    /\ malloc_table = [h \in Pcs |-> 0]

\* ------------------------------------------------------------ threads
Threads == {"t1", "t2"}
NoThread == "none"

Idle == [pc |-> "idle", blk |-> NoBlock(NoHeap), pass_to_free |-> NULL,
         pass_heap |-> NoHeap, out |-> NoHit]

ThreadsIdle ==
    /\ delay_free_lock = NoThread
    /\ mmap_tree_lock = NoThread
    /\ thr = [t \in Threads |-> Idle]

\* ------------------------------------------------------------ options
\* mutant: the shadowing option is not consulted
QuarantineEnabled_NoShadowingTest ==
    ~options.leaks_only /\ options.delay_frees > 0

\* if (!options.leaks_only && options.shadowing && options.delay_frees > 0)
QuarantineEnabled ==
    ~options.leaks_only /\ options.shadowing /\ options.delay_frees > 0

ShadowingEnabled == ~options.leaks_only /\ options.shadowing

\* ------------------------------------------------------------ delayed-free list
DELAY_FREE_FULL == delay_free_fill = options.delay_frees

\* mutant: the head is not advanced after an eviction
AdvanceHead_Stuck(h) == h

\* mutant: the head does not wrap around
AdvanceHead_NoWrap(h) == h + 1

\* delay_free_head++; if (delay_free_head >= options.delay_frees) delay_free_head = 0;
AdvanceHead(h) == IF h + 1 >= options.delay_frees THEN 0 ELSE h + 1

\* the client value stored with the tree node
TreeClient(base, real_base) == (base = real_base)

Slots == 0..(options.delay_frees - 1)

\* history: the FIFO the quarantine is meant to be
Push(q, b) ==
    LET e == [blk |-> b, swept |-> FALSE]
    IN IF Len(q) = options.delay_frees THEN Append(Tail(q), e) ELSE Append(q, e)

Sweep(q, heap) ==
    [i \in 1..Len(q) |->
        IF q[i].blk.heap = heap THEN [blk |-> NoBlock(heap), swept |-> TRUE] ELSE q[i]]

\* mutant: the evicted block's node stays in the tree
EvictFromTree_Skip(tree, pass_to_free) == tree

\* if (pass_to_free != NULL) { node = rb_find(...); if (node != NULL) rb_delete(...) }
EvictFromTree(tree, pass_to_free) ==
    IF pass_to_free # NULL THEN rb_delete(tree, rb_find(tree, pass_to_free)) ELSE tree

InitQuarantine ==
    /\ PoolEmpty
    /\ MmapEmpty
    /\ NoSignals
    /\ NoFault
    /\ ThreadsIdle
    /\ options \in [leaks_only : BOOLEAN, shadowing : BOOLEAN,
                    delay_frees : 0..MaxDelayFrees, redzone_size : RedzoneSizes]
    /\ shadow = [a \in Addr |-> SHADOW_UNADDRESSABLE]
    /\ delay_free_list = [i \in Slots |-> [addr |-> NULL, heap |-> NoHeap]]
    /\ delay_free_head = 0
    /\ delay_free_fill = 0
    /\ delay_free_tree = {}
    /\ asserts = {}
    /\ recent = <<>>
    /\ last = [op |-> "init"]

client_handle_free(b) ==
    LET sh == IF ShadowingEnabled
              THEN shadow_set_range(shadow, b.base, b.base + b.size, SHADOW_UNADDRESSABLE)
              ELSE shadow
        rs == real_size(b.base, b.size, b.real_base)
        t1 == rb_insert(delay_free_tree, b.real_base, rs, TreeClient(b.base, b.real_base))
        full == DELAY_FREE_FULL
        slot == IF full THEN delay_free_head ELSE delay_free_fill
        pass_to_free == IF full THEN delay_free_list[delay_free_head].addr ELSE NULL
        pass_heap == IF full THEN delay_free_list[delay_free_head].heap ELSE b.heap
        found == rb_find(t1, pass_to_free)
    IN
    /\ shadow' = sh
    /\ IF QuarantineEnabled
       THEN /\ delay_free_list' =
                  [delay_free_list EXCEPT ![slot] = [addr |-> b.real_base, heap |-> b.heap]]
            /\ delay_free_head' =
                  IF full THEN AdvanceHead(delay_free_head) ELSE delay_free_head
            /\ delay_free_fill' = IF full THEN delay_free_fill ELSE delay_free_fill + 1
            /\ delay_free_tree' = EvictFromTree(t1, pass_to_free)
            /\ asserts' =
                  IF pass_to_free # NULL /\ found = {}
                  THEN asserts \cup {"delay_free_tree inconsistent"}
                  ELSE asserts
            /\ recent' = Push(recent, b)
            /\ last' = [op |-> "free", blk |-> b, ret |-> pass_to_free, heap |-> pass_heap]
       ELSE /\ UNCHANGED <<delay_free_list, delay_free_head, delay_free_fill,
                           delay_free_tree, asserts, recent>>
            /\ last' = [op |-> "free", blk |-> b, ret |-> b.real_base, heap |-> b.heap]
    /\ UNCHANGED <<options, pvars, svars, fault, mmap_tree, cvars>>

Free == \E b \in Blocks : Available(b) /\ client_handle_free(b) /\ UNCHANGED hvars

\* mutant: the slots of the destroyed heap keep their addr
client_handle_heap_destroy_KeepAddr(heap) ==
    LET hit == {i \in Slots : i < delay_free_fill /\ delay_free_list[i].heap = heap}
        missing == {i \in hit : rb_find(delay_free_tree, delay_free_list[i].addr) = {}}
    IN
    /\ delay_free_tree' =
          {n \in delay_free_tree : \A i \in hit : n.base # delay_free_list[i].addr}
    /\ delay_free_list' = delay_free_list
    /\ asserts' = IF missing # {}
                  THEN asserts \cup {"delay_free_tree inconsistent"}
                  ELSE asserts
    /\ recent' = Sweep(recent, heap)
    /\ last' = [op |-> "heap_destroy"]
    /\ UNCHANGED <<options, shadow, delay_free_head, delay_free_fill, pvars, svars, fault, mvars, cvars>>

client_handle_heap_destroy(heap) ==
    LET hit == {i \in Slots : i < delay_free_fill /\ delay_free_list[i].heap = heap}
        missing == {i \in hit : rb_find(delay_free_tree, delay_free_list[i].addr) = {}}
    IN
    /\ delay_free_tree' =
          {n \in delay_free_tree : \A i \in hit : n.base # delay_free_list[i].addr}
    /\ delay_free_list' =
          [i \in Slots |-> IF i \in hit
                           THEN [delay_free_list[i] EXCEPT !.addr = NULL]
                           ELSE delay_free_list[i]]
    /\ asserts' = IF missing # {}
                  THEN asserts \cup {"delay_free_tree inconsistent"}
                  ELSE asserts
    /\ recent' = Sweep(recent, heap)
    /\ last' = [op |-> "heap_destroy"]
    /\ UNCHANGED <<options, shadow, delay_free_head, delay_free_fill, pvars, svars, fault, mvars, cvars>>

HeapDestroy == \E h \in Heaps : options.delay_frees > 0 /\ client_handle_heap_destroy(h)

\* the ranges [start, end) a caller may ask about
Ranges == {r \in Addr \X (2..(MaxAddr + 1)) : r[1] < r[2]}

\* The possible outcomes of overlaps_delayed_free(start, end): rb_overlaps_node
\* returns some node that overlaps [start, end), or NULL when there is none.
OverlapHit(node, start, end) ==
    LET has_redzone == node.client
    IN \/ ~has_redzone
       \/ /\ start < node.base + node.size - options.redzone_size
          /\ end >= node.base + options.redzone_size

FreeStart(node) == node.base + options.redzone_size
FreeEnd(node) == node.base + node.size - options.redzone_size

overlaps_delayed_free(start, end) ==
    LET nodes == rb_overlaps_nodes(delay_free_tree, start, end)
    IN IF nodes = {} THEN {NoHit}
       ELSE {IF OverlapHit(n, start, end)
             THEN [res |-> TRUE, free_start |-> FreeStart(n), free_end |-> FreeEnd(n)]
             ELSE NoHit : n \in nodes}

Overlaps ==
    \E rg \in Ranges :
        /\ options.delay_frees > 0
        /\ \E r \in overlaps_delayed_free(rg[1], rg[2]) :
              last' = [op |-> "overlaps", out |-> r]
        /\ UNCHANGED <<qvars, pvars, svars, fault, mvars, cvars, asserts>>

NextQuarantine == Free \/ HeapDestroy \/ Overlaps

SpecQuarantine == InitQuarantine /\ [][NextQuarantine]_vars

\* ------------------------------------------------------------ callstack table
QuarantineIdle ==
    /\ options = [leaks_only |-> FALSE, shadowing |-> TRUE,
                  delay_frees |-> 0, redzone_size |-> 0]
    /\ shadow = [a \in Addr |-> SHADOW_UNADDRESSABLE]
    /\ delay_free_list = [i \in Slots |-> [addr |-> NULL, heap |-> NoHeap]]
    /\ delay_free_head = 0
    /\ delay_free_fill = 0
    /\ delay_free_tree = {}
    /\ recent = <<>>

InitPool ==
    /\ QuarantineIdle
    /\ MmapEmpty
    /\ NoSignals
    /\ NoFault
    /\ ThreadsIdle
    /\ PoolEmpty
    /\ asserts = {}
    /\ last = [op |-> "init"]

\* mutant: the reference of the new allocation record is not taken
AddMallocRef_Missing(cs, pcs) == cs

\* packed_callstack_add_ref(pcs): the reference held by the malloc_table entry
AddMallocRef(cs, pcs) == packed_callstack_add_ref(cs, pcs)

\* hashtable_add fails when an entry with an equal key is there
AddSucceeds(cs, table, pcs) == hashtable_lookup(cs, table, pcs) = {}

\* client_add_malloc_pre with existing_data = NULL: the callstack is recorded
\* into a new object, at any handle whose storage is free.
client_add_malloc_pre_new(h, content) ==
    LET cs1 == packed_callstack_record(callstacks, h, content)
        added == AddSucceeds(cs1, alloc_stack_table, h)
        existing == CHOOSE e \in hashtable_lookup(cs1, alloc_stack_table, h) : TRUE
        count == packed_callstack_free_count(cs1, h)
        cs2 == IF added THEN cs1 ELSE packed_callstack_free(cs1, h)
        pcs == IF added THEN h ELSE existing
    IN
    /\ alloc_stack_table' = IF added THEN alloc_stack_table \cup {h} ELSE alloc_stack_table
    /\ callstacks' = AddMallocRef(cs2, pcs)
    /\ asserts' = IF ~added /\ count # 0
                  THEN asserts \cup {"refcount should be 0"}
                  ELSE asserts
    /\ malloc_table' = [malloc_table EXCEPT ![pcs] = @ + 1]
    /\ last' = [op |-> "add_malloc_pre", ret |-> pcs]

\* client_add_malloc_pre with existing_data != NULL
client_add_malloc_pre_existing(existing_data) ==
    LET added == AddSucceeds(callstacks, alloc_stack_table, existing_data)
        found == hashtable_lookup(callstacks, alloc_stack_table, existing_data)
        pcs == IF added THEN existing_data ELSE CHOOSE e \in found : TRUE
    IN
    /\ alloc_stack_table' =
          IF added THEN alloc_stack_table \cup {existing_data} ELSE alloc_stack_table
    /\ callstacks' = AddMallocRef(callstacks, pcs)
    /\ asserts' = IF ~added /\ pcs # existing_data
                  THEN asserts \cup {"invalid params"}
                  ELSE asserts
    /\ malloc_table' = [malloc_table EXCEPT ![pcs] = @ + 1]
    /\ last' = [op |-> "add_malloc_pre", ret |-> pcs]

LiveRecords == {h \in Pcs : malloc_table[h] > 0}

NumRecords(mt) ==
    LET RECURSIVE Sum(_)
        Sum(S) == IF S = {} THEN 0
                  ELSE LET h == CHOOSE x \in S : TRUE IN mt[h] + Sum(S \ {h})
    IN Sum(Pcs)

AddMalloc ==
    /\ UNCHANGED cvars
    /\ NumRecords(malloc_table) < MaxRecords
    /\ \/ \E h \in Pcs, c \in Contents :
             ~Allocated(callstacks, h) /\ client_add_malloc_pre_new(h, c)
       \/ \E d \in LiveRecords : client_add_malloc_pre_existing(d)
    /\ UNCHANGED <<qvars, mvars, svars, fault>>

\* hashtable_remove: unlinks the entry with an equal key and calls
\* alloc_callstack_free on its payload
hashtable_remove_table(cs, table, key) == table \ hashtable_lookup(cs, table, key)

RECURSIVE FreeAll(_, _)
FreeAll(cs, S) ==
    IF S = {} THEN cs
    ELSE LET e == CHOOSE x \in S : TRUE
         IN FreeAll(packed_callstack_free(cs, e), S \ {e})

hashtable_remove_payloads(cs, table, key) == FreeAll(cs, hashtable_lookup(cs, table, key))

\* mutant: the table entry is dropped only at count 0
LastMallocRef_Zero(count) == count = 0

\* if (count == 1) hashtable_remove(&alloc_stack_table, pcs)
LastMallocRef(count) == count = 1

client_malloc_data_free(data) ==
    LET count == packed_callstack_free_count(callstacks, data)
        cs1 == packed_callstack_free(callstacks, data)
    IN
    /\ asserts' = IF count = 0
                  THEN asserts \cup {"refcount should not hit 0 in malloc_table"}
                  ELSE asserts
    /\ IF LastMallocRef(count)
       THEN /\ alloc_stack_table' = hashtable_remove_table(cs1, alloc_stack_table, data)
            /\ callstacks' = hashtable_remove_payloads(cs1, alloc_stack_table, data)
       ELSE /\ alloc_stack_table' = alloc_stack_table
            /\ callstacks' = cs1
    /\ malloc_table' = [malloc_table EXCEPT ![data] = @ - 1]
    /\ last' = [op |-> "malloc_data_free", data |-> data, count |-> count]

RemoveMalloc ==
    /\ UNCHANGED cvars
    /\ \E d \in LiveRecords : client_malloc_data_free(d)
    /\ UNCHANGED <<qvars, mvars, svars, fault>>

NextPool == AddMalloc \/ RemoveMalloc

SpecPool == InitPool /\ [][NextPool]_vars

\* ------------------------------------------------------------ handlers on threads
\* client_handle_free and overlaps_delayed_free as they run on several
\* threads: one step per lock operation and per update made under the lock.
InitThreads ==
    /\ PoolEmpty
    /\ MmapEmpty
    /\ NoSignals
    /\ NoFault
    /\ ThreadsIdle
    /\ options \in [leaks_only : {FALSE}, shadowing : {TRUE},
                    delay_frees : 1..MaxDelayFrees, redzone_size : RedzoneSizes]
    /\ shadow = [a \in Addr |-> SHADOW_UNADDRESSABLE]
    /\ delay_free_list = [i \in Slots |-> [addr |-> NULL, heap |-> NoHeap]]
    /\ delay_free_head = 0
    /\ delay_free_fill = 0
    /\ delay_free_tree = {}
    /\ asserts = {}
    /\ recent = <<>>
    /\ last = [op |-> "init"]

\* blocks that are inside a client_handle_free call of some thread
InFlight == {thr[t].blk : t \in {u \in Threads : thr[u].blk.real_base # NULL}}

AvailableToThread(b) ==
    /\ Available(b)
    /\ \A h \in InFlight : ~Overlap(b.real_base, RealEnd(b), h.real_base, RealEnd(h))

\* report_malloc; shadow_set_range(base, base+size, SHADOW_UNADDRESSABLE)
FreeEnter(t) ==
    /\ thr[t].pc = "idle"
    /\ QuarantineEnabled
    /\ \E b \in Blocks :
          /\ AvailableToThread(b)
          /\ shadow' = IF ShadowingEnabled
                       THEN shadow_set_range(shadow, b.base, b.base + b.size,
                                             SHADOW_UNADDRESSABLE)
                       ELSE shadow
          /\ thr' = [thr EXCEPT ![t] = [Idle EXCEPT !.pc = "free_lock", !.blk = b]]
    /\ UNCHANGED <<options, delay_free_list, delay_free_head, delay_free_fill,
                   delay_free_tree, recent, pvars, svars, fault, mvars, delay_free_lock, mmap_tree_lock,
                   asserts, last>>

\* dr_mutex_lock(delay_free_lock)
FreeLock(t) ==
    /\ thr[t].pc = "free_lock"
    /\ delay_free_lock = NoThread
    /\ delay_free_lock' = t
    /\ thr' = [thr EXCEPT ![t].pc = "free_critical"]
    /\ UNCHANGED <<qvars, pvars, svars, fault, mvars, mmap_tree_lock, asserts, last>>

\* the updates made while holding the lock: rb_insert, the FIFO update and
\* the removal of the evicted node
FreeCritical(t) ==
    LET b == thr[t].blk
        t1 == rb_insert(delay_free_tree, b.real_base,
                        real_size(b.base, b.size, b.real_base),
                        TreeClient(b.base, b.real_base))
        full == DELAY_FREE_FULL
        slot == IF full THEN delay_free_head ELSE delay_free_fill
        pass_to_free == IF full THEN delay_free_list[delay_free_head].addr ELSE NULL
        pass_heap == IF full THEN delay_free_list[delay_free_head].heap ELSE b.heap
    IN
    /\ thr[t].pc = "free_critical"
    /\ delay_free_list' =
          [delay_free_list EXCEPT ![slot] = [addr |-> b.real_base, heap |-> b.heap]]
    /\ delay_free_head' = IF full THEN AdvanceHead(delay_free_head) ELSE delay_free_head
    /\ delay_free_fill' = IF full THEN delay_free_fill ELSE delay_free_fill + 1
    /\ delay_free_tree' = EvictFromTree(t1, pass_to_free)
    /\ asserts' = IF pass_to_free # NULL /\ rb_find(t1, pass_to_free) = {}
                  THEN asserts \cup {"delay_free_tree inconsistent"}
                  ELSE asserts
    /\ recent' = Push(recent, b)
    /\ thr' = [thr EXCEPT ![t].pc = "free_unlock",
                          ![t].blk = NoBlock(NoHeap),
                          ![t].pass_to_free = pass_to_free,
                          ![t].pass_heap = pass_heap]
    /\ UNCHANGED <<options, shadow, pvars, svars, fault, mvars, delay_free_lock, mmap_tree_lock, last>>

\* dr_mutex_unlock(delay_free_lock); return pass_to_free
FreeUnlock(t) ==
    /\ thr[t].pc = "free_unlock"
    /\ delay_free_lock' = NoThread
    /\ thr' = [thr EXCEPT ![t] = Idle]
    /\ UNCHANGED <<qvars, pvars, svars, fault, mvars, mmap_tree_lock, asserts, last>>

\* mutant: the lookup does not wait for delay_free_lock
OvLock_NoLock(t) ==
    /\ thr[t].pc = "idle"
    /\ thr' = [thr EXCEPT ![t].pc = "ov_query"]
    /\ UNCHANGED <<qvars, pvars, svars, fault, mvars, delay_free_lock, mmap_tree_lock, asserts, last>>

\* overlaps_delayed_free: dr_mutex_lock(delay_free_lock)
OvLock(t) ==
    /\ thr[t].pc = "idle"
    /\ delay_free_lock = NoThread
    /\ delay_free_lock' = t
    /\ thr' = [thr EXCEPT ![t].pc = "ov_query"]
    /\ UNCHANGED <<qvars, pvars, svars, fault, mvars, mmap_tree_lock, asserts, last>>

\* node = rb_overlaps_node(delay_free_tree, start, end) and the test on it
OvQuery(t) ==
    /\ thr[t].pc = "ov_query"
    /\ \E r \in Ranges :
          LET nodes == rb_overlaps_nodes(delay_free_tree, r[1], r[2])
          IN \/ /\ nodes = {}
                /\ thr' = [thr EXCEPT ![t].pc = "ov_unlock", ![t].out = NoHit]
             \/ \E n \in nodes :
                   thr' = [thr EXCEPT
                             ![t].pc = "ov_unlock",
                             ![t].out =
                                 IF OverlapHit(n, r[1], r[2])
                                 THEN [res |-> TRUE, free_start |-> FreeStart(n),
                                       free_end |-> FreeEnd(n)]
                                 ELSE NoHit]
    /\ UNCHANGED <<qvars, pvars, svars, fault, mvars, delay_free_lock, mmap_tree_lock, asserts, last>>

\* dr_mutex_unlock(delay_free_lock); return res
OvUnlock(t) ==
    /\ thr[t].pc = "ov_unlock"
    /\ delay_free_lock' = IF delay_free_lock = t THEN NoThread ELSE delay_free_lock
    /\ thr' = [thr EXCEPT ![t] = Idle]
    /\ UNCHANGED <<qvars, pvars, svars, fault, mvars, mmap_tree_lock, asserts, last>>

NextThreads ==
    \E t \in Threads :
        \/ FreeEnter(t) \/ FreeLock(t) \/ FreeCritical(t) \/ FreeUnlock(t)
        \/ OvLock(t) \/ OvQuery(t) \/ OvUnlock(t)

SpecThreads == InitThreads /\ [][NextThreads]_vars

\* ------------------------------------------------------------ mmap table
Mem == 1..MaxMem

\* <<base, size>> of the mappings and heap blocks the handlers are called with
MemRanges == {r \in Mem \X Mem : r[1] + r[2] <= MaxMem + 1}

Range(base, size) == {a \in Addr : base <= a /\ a < base + size}

Covered(tree) == UNION {Range(n.base, n.size) : n \in tree}

rb_in_node(tree, addr) == {n \in tree : addr \in Range(n.base, n.size)}

\* mutant: the tags are copied one at a time from the lowest address up, so a
\* tag already overwritten is copied again when the ranges overlap
shadow_copy_range_Forward(sh, old, new, size) ==
    LET F[k \in 0..size] ==
            IF k = 0 THEN sh
            ELSE IF new + k - 1 \in Addr /\ old + k - 1 \in Addr
                 THEN [F[k - 1] EXCEPT ![new + k - 1] = F[k - 1][old + k - 1]]
                 ELSE F[k - 1]
    IN F[size]

\* shadow_copy_range(old, new, size): the tags move with the bytes, as memmove
shadow_copy_range(sh, old, new, size) ==
    [a \in Addr |-> IF a \in Range(new, size) THEN sh[a - new + old] ELSE sh[a]]

\* mmap_walk: the module walker sets the shadow of a file mapping's range;
\* the outcomes it can produce
mmap_walk(sh, base, size, add) ==
    IF add
    THEN {shadow_set_range(sh, base, base + size, SHADOW_DEFINED)}
    ELSE {shadow_set_range(sh, base, base + size, SHADOW_UNADDRESSABLE)}

\* no ASSERT of an mmap handler fired in the call
NoAssert == "none"

\* mutant: the merged range takes the added range's end
MergeEnd_Added(base, size, node) == base + size

\* merge_end = (base + size > merge_base + merge_size) ? ... : ...
MergeEnd(base, size, node) ==
    IF base + size > node.base + node.size THEN base + size ELSE node.base + node.size

\* merge_base = (base < merge_base) ? base : merge_base
MergeBase(base, size, node) == IF base < node.base THEN base ELSE node.base

\* mmap_tree_add: the outcomes it can produce, one for each node the first
\* rb_insert may report as overlapping; err is its ASSERT having fired
mmap_tree_add(tree, base, size) ==
    LET nodes == rb_overlaps_nodes(tree, base, base + size)
    IN IF nodes = {}
       THEN {[tree |-> rb_insert(tree, base, size, NULL), err |-> NoAssert]}
       ELSE {LET t1 == rb_delete(tree, {node})
                 merge_end == MergeEnd(base, size, node)
                 merge_base == MergeBase(base, size, node)
                 inserted == rb_overlaps_nodes(t1, merge_base, merge_end) = {}
             IN [tree |-> rb_insert(t1, merge_base, merge_end - merge_base, NULL),
                 \* ASSERT(node != NULL, ...): node is NULL when the insert was done
                 err |-> IF inserted THEN "mmap tree error" ELSE NoAssert]
             : node \in nodes}

\* mutant: only the part of the node before the removed range is put back
TrailingResidual_Dropped(tree, base, size, node) == tree

\* if (node_base + node_size > base + size) rb_insert(base + size, ...)
TrailingResidual(tree, base, size, node) ==
    IF node.base + node.size > base + size
    THEN rb_insert(tree, base + size, (node.base + node.size) - (base + size), NULL)
    ELSE tree

\* mmap_tree_remove: the tree after the while loop
RECURSIVE mmap_tree_remove(_, _, _)
mmap_tree_remove(tree, base, size) ==
    LET nodes == rb_overlaps_nodes(tree, base, base + size)
    IN IF nodes = {}
       THEN tree
       ELSE LET node == CHOOSE n \in nodes : TRUE
                t1 == rb_delete(tree, {node})
                t2 == IF node.base < base
                      THEN rb_insert(t1, node.base, base - node.base, NULL)
                      ELSE t1
                t3 == TrailingResidual(t2, base, size, node)
            IN mmap_tree_remove(t3, base, size)

\* mmap_tree_remove: res
mmap_tree_remove_res(tree, base, size) ==
    rb_overlaps_nodes(tree, base, base + size) # {}

InitMmap ==
    /\ PoolEmpty
    /\ MmapEmpty
    /\ NoSignals
    /\ NoFault
    /\ ThreadsIdle
    /\ options \in [leaks_only : BOOLEAN, shadowing : BOOLEAN,
                    delay_frees : {0}, redzone_size : {0}]
    /\ shadow = [a \in Addr |-> SHADOW_UNADDRESSABLE]
    /\ delay_free_list = [i \in Slots |-> [addr |-> NULL, heap |-> NoHeap]]
    /\ delay_free_head = 0
    /\ delay_free_fill = 0
    /\ delay_free_tree = {}
    /\ recent = <<>>
    /\ asserts = {}
    /\ last = [op |-> "init"]

\* what the mmap handlers leave alone
MmapFrame ==
    UNCHANGED <<options, delay_free_list, delay_free_head, delay_free_fill,
                delay_free_tree, recent, pvars, svars, fault, cvars, hvars, asserts>>


\* client_handle_mmap, LINUX
client_handle_mmap(in_heap_routine, base, size, anon) ==
    /\ IF anon
       THEN /\ shadow' = IF in_heap_routine = 0 /\ ShadowingEnabled
                         THEN shadow_set_range(shadow, base, base + size, SHADOW_DEFINED)
                         ELSE shadow
            /\ \E r \in mmap_tree_add(mmap_tree, base, size) :
                  /\ mmap_tree' = r.tree
                  /\ last' = [op |-> "mmap", anon |-> anon, asserted |-> r.err]
       ELSE /\ shadow' \in IF ShadowingEnabled
                           THEN mmap_walk(shadow, base, size, TRUE)
                           ELSE {shadow}
            /\ last' = [op |-> "mmap", anon |-> anon, asserted |-> NoAssert]
            /\ UNCHANGED mmap_tree
    /\ MmapFrame

Mmap ==
    \E r \in MemRanges : \E anon \in BOOLEAN :
        \E in_heap_routine \in IF anon THEN {0, 1} ELSE {0} :
            client_handle_mmap(in_heap_routine, r[1], r[2], anon)

\* mutant: the unmapped range keeps its tags
MunmapShadow_Kept(sh, base, size) == sh

\* shadow_set_range(base, base+size, SHADOW_UNADDRESSABLE)
MunmapShadow(sh, base, size) ==
    shadow_set_range(sh, base, base + size, SHADOW_UNADDRESSABLE)

\* client_handle_munmap, LINUX
client_handle_munmap(base, size) ==
    LET res == mmap_tree_remove_res(mmap_tree, base, size)
        walked == ~res /\ ShadowingEnabled
    IN
    /\ mmap_tree' = mmap_tree_remove(mmap_tree, base, size)
    /\ shadow' \in IF res
                   THEN {IF ShadowingEnabled
                         THEN MunmapShadow(shadow, base, size)
                         ELSE shadow}
                   ELSE IF ShadowingEnabled
                        THEN mmap_walk(shadow, base, size, FALSE)
                        ELSE {shadow}
    /\ last' = [op |-> "munmap", res |-> res, walked |-> walked]
    /\ MmapFrame

Munmap == \E r \in MemRanges : client_handle_munmap(r[1], r[2])

\* client_handle_munmap_fail, LINUX
client_handle_munmap_fail(base, size, anon) ==
    /\ IF anon
       THEN /\ shadow' = IF ShadowingEnabled
                         THEN shadow_set_range(shadow, base, base + size, SHADOW_DEFINED)
                         ELSE shadow
            /\ \E r \in mmap_tree_add(mmap_tree, base, size) :
                  /\ mmap_tree' = r.tree
                  /\ last' = [op |-> "munmap_fail", anon |-> anon, asserted |-> r.err]
       ELSE /\ shadow' \in IF ShadowingEnabled
                           THEN mmap_walk(shadow, base, size, TRUE)
                           ELSE {shadow}
            /\ last' = [op |-> "munmap_fail", anon |-> anon, asserted |-> NoAssert]
            /\ UNCHANGED mmap_tree
    /\ MmapFrame

\* the munmap whose pre-syscall handler has just run failed
MunmapFail ==
    /\ last.op = "munmap"
    /\ \E r \in MemRanges : \E anon \in BOOLEAN :
          client_handle_munmap_fail(r[1], r[2], anon)

\* mutant: the shrunk mapping's old tail keeps its tags
ShrinkTail_Kept(sh, old_base, old_size, new_size) == sh

\* shadow_set_range(old_base+new_size, old_base+old_size, SHADOW_UNADDRESSABLE)
ShrinkTail(sh, old_base, old_size, new_size) ==
    shadow_set_range(sh, old_base + new_size, old_base + old_size, SHADOW_UNADDRESSABLE)

\* client_handle_mremap
client_handle_mremap(old_base, old_size, new_base, new_size, image) ==
    LET shrink == new_size < old_size
        copied == shadow_copy_range(shadow, old_base, new_base,
                                    IF shrink THEN new_size ELSE old_size)
        found == mmap_tree_remove_res(mmap_tree, old_base, old_size)
    IN
    /\ shadow' = IF ShadowingEnabled
                 THEN IF shrink
                      THEN ShrinkTail(copied, old_base, old_size, new_size)
                      ELSE shadow_set_range(copied, new_base + old_size,
                                            new_base + new_size,
                                            IF image THEN SHADOW_DEFINED
                                            ELSE SHADOW_UNDEFINED)
                 ELSE shadow
    /\ \E r \in mmap_tree_add(mmap_tree_remove(mmap_tree, old_base, old_size),
                                new_base, new_size) :
          /\ mmap_tree' = r.tree
          /\ last' = [op |-> "mremap",
                      asserted |-> IF ~found
                                   THEN "for now assuming mremap is of anon regions only"
                                   ELSE r.err]
    /\ MmapFrame

\* mremap resizes an anonymous mapping in place or moves it to a range apart
\* from the old one
Mremap ==
    \E o \in MemRanges : \E n \in MemRanges :
        /\ Range(o[1], o[2]) \subseteq Covered(mmap_tree)
        /\ \/ n[1] = o[1]
           \/ ~Overlap(o[1], o[1] + o[2], n[1], n[1] + n[2])
        /\ \E image \in IF n[2] > o[2] THEN BOOLEAN ELSE {FALSE} :
              client_handle_mremap(o[1], o[2], n[1], n[2], image)

\* mmap_anon_lookup
mmap_anon_lookup(addr) ==
    /\ \/ /\ rb_in_node(mmap_tree, addr) = {}
          /\ last' = [op |-> "lookup", addr |-> addr, res |-> FALSE,
                      start |-> NULL, size |-> 0]
       \/ \E node \in rb_in_node(mmap_tree, addr) :
             last' = [op |-> "lookup", addr |-> addr, res |-> TRUE,
                      start |-> node.base, size |-> node.size]
    /\ UNCHANGED <<shadow, mmap_tree>>
    /\ MmapFrame

Lookup == \E addr \in Mem : mmap_anon_lookup(addr)

\* mappings are made, looked up and unmapped
NextMmap == Mmap \/ Munmap \/ MunmapFail \/ Lookup

SpecMmap == InitMmap /\ [][NextMmap]_vars

\* mappings are also resized and moved
NextMremap == NextMmap \/ Mremap

SpecMremap == InitMmap /\ [][NextMremap]_vars

\* ------------------------------------------------------------ heap events
InitHeap == InitMmap

\* what the malloc and realloc handlers leave alone
HeapFrame ==
    UNCHANGED <<options, delay_free_list, delay_free_head, delay_free_fill,
                delay_free_tree, recent, pvars, svars, fault, mmap_tree, asserts>>

\* the blocks of the allocator are disjoint
Unused(base, size, blocks) ==
    \A b \in blocks : ~Overlap(base, base + size, b.base, b.base + b.size)

\* a live block as client_handle_free is given it (no redzones)
HeapBlock(b) ==
    [base |-> b.base, size |-> b.size, real_base |-> b.base, heap |-> HeapOf(b.base)]

\* mutant: the zeroed flag is ignored
MallocTag_Undefined(zeroed) == SHADOW_UNDEFINED

\* uint val = zeroed ? SHADOW_DEFINED : SHADOW_UNDEFINED
MallocTag(zeroed) == IF zeroed THEN SHADOW_DEFINED ELSE SHADOW_UNDEFINED

\* client_handle_malloc: the shadow it leaves
MallocShadow(sh, base, size, zeroed) ==
    IF ShadowingEnabled
    THEN shadow_set_range(sh, base, base + size, MallocTag(zeroed))
    ELSE sh

\* client_handle_malloc
client_handle_malloc(base, size, zeroed) ==
    /\ shadow' = MallocShadow(shadow, base, size, zeroed)
    /\ last' = [op |-> "malloc", zeroed |-> zeroed]
    /\ HeapFrame

\* malloc or calloc returns a block and its post-call handler runs
Malloc ==
    \E r \in MemRanges : \E zeroed \in BOOLEAN :
        /\ Unused(r[1], r[2], live)
        /\ client_handle_malloc(r[1], r[2], zeroed)
        /\ live' = live \cup {[base |-> r[1], size |-> r[2]]}
        /\ freed' = freed \ Range(r[1], r[2])
        /\ UNCHANGED cvars

\* mutant: the old block's shadow is not copied to the new block
ReallocCopy_None(sh, old_base, old_size, new_base, new_size) ==
    IF new_size > old_size
    THEN shadow_set_range(sh, new_base + old_size, new_base + new_size, SHADOW_UNDEFINED)
    ELSE sh

\* shadow_copy_range of the old block and the new tail marked undefined
ReallocCopy(sh, old_base, old_size, new_base, new_size) ==
    IF new_size > old_size
    THEN shadow_set_range(shadow_copy_range(sh, old_base, new_base, old_size),
                          new_base + old_size, new_base + new_size, SHADOW_UNDEFINED)
    ELSE shadow_copy_range(sh, old_base, new_base, new_size)

\* mutant: the front of the old block is left as it was
ReallocFront_Kept(sh, old_base, old_size, new_base, new_size) == sh

\* if (new_base > old_base) shadow_set_range(old_base, ..., SHADOW_UNADDRESSABLE)
ReallocFront(sh, old_base, old_size, new_base, new_size) ==
    IF new_base > old_base
    THEN shadow_set_range(sh, old_base,
                          IF new_base < old_base + old_size
                          THEN new_base ELSE old_base + old_size,
                          SHADOW_UNADDRESSABLE)
    ELSE sh

\* if (new_base + new_size < old_base + old_size) shadow_set_range(start, ...)
ReallocBack(sh, old_base, old_size, new_base, new_size) ==
    IF new_base + new_size < old_base + old_size
    THEN shadow_set_range(sh,
                          IF new_base + new_size < old_base
                          THEN old_base ELSE new_base + new_size,
                          old_base + old_size, SHADOW_UNADDRESSABLE)
    ELSE sh

\* client_handle_realloc: the shadow it leaves
ReallocShadow(sh, old_base, old_size, new_base, new_size) ==
    IF ShadowingEnabled
    THEN ReallocBack(ReallocFront(ReallocCopy(sh, old_base, old_size,
                                              new_base, new_size),
                                  old_base, old_size, new_base, new_size),
                     old_base, old_size, new_base, new_size)
    ELSE sh

\* how the new block lies relative to the old one
RelPos(old_base, old_size, new_base, new_size) ==
    IF new_base = old_base /\ new_size = old_size THEN "same"
    ELSE IF ~Overlap(old_base, old_base + old_size, new_base, new_base + new_size)
         THEN "disjoint"
    ELSE IF old_base <= new_base /\ new_base + new_size <= old_base + old_size
         THEN "new inside old"
    ELSE IF new_base <= old_base /\ old_base + old_size <= new_base + new_size
         THEN "old inside new"
    ELSE IF new_base > old_base THEN "new after old"
    ELSE "new before old"

\* client_handle_realloc
client_handle_realloc(old_base, old_size, new_base, new_size) ==
    /\ shadow' = ReallocShadow(shadow, old_base, old_size, new_base, new_size)
    /\ last' = [op |-> "realloc",
                pos |-> RelPos(old_base, old_size, new_base, new_size),
                grew |-> new_size > old_size]
    /\ HeapFrame

\* realloc replaces a live block and its post-call handler runs
Realloc ==
    \E old \in live : \E n \in MemRanges :
        /\ Unused(n[1], n[2], live \ {old})
        /\ client_handle_realloc(old.base, old.size, n[1], n[2])
        /\ live' = (live \ {old}) \cup {[base |-> n[1], size |-> n[2]]}
        /\ freed' = freed \ Range(n[1], n[2])
        /\ UNCHANGED cvars

\* the pre-call handler of free runs and the block is freed
HeapFree ==
    \E b \in live :
        /\ client_handle_free(HeapBlock(b))
        /\ live' = live \ {b}
        /\ freed' = freed \cup Range(b.base, b.size)

NextHeap == Malloc \/ Realloc \/ HeapFree

SpecHeap == InitHeap /\ [][NextHeap]_vars

\* ------------------------------------------------------------ heap events on threads
\* The allocator's own routines are serialised by its lock; the handlers run
\* on the calling thread outside that lock (post-call for malloc and realloc,
\* pre-call for free), so another thread's routine and handler can run between
\* a routine and its handler.

\* a block whose post-call handler has not run yet: the program does not hold
\* its pointer
Pending(b) ==
    \E t \in Threads : thr[t].pc # "idle" /\ thr[t].blk = b

\* what a step of the allocator itself leaves alone
AllocatorFrame ==
    UNCHANGED <<qvars, pvars, svars, fault, mmap_tree, delay_free_lock, mmap_tree_lock, asserts, last>>

\* malloc or calloc returns a block on thread t
MallocCall(t) ==
    /\ thr[t].pc = "idle"
    /\ \E r \in MemRanges : \E zeroed \in BOOLEAN :
          /\ Unused(r[1], r[2], live)
          /\ live' = live \cup {[base |-> r[1], size |-> r[2]]}
          /\ freed' = freed \ Range(r[1], r[2])
          /\ thr' = [thr EXCEPT ![t] = [pc |-> "post_malloc",
                                        blk |-> [base |-> r[1], size |-> r[2]],
                                        zeroed |-> zeroed]]
    /\ AllocatorFrame

\* the post-call handler of malloc runs on thread t
MallocPost(t) ==
    /\ thr[t].pc = "post_malloc"
    /\ client_handle_malloc(thr[t].blk.base, thr[t].blk.size, thr[t].zeroed)
    /\ thr' = [thr EXCEPT ![t] = Idle]
    /\ UNCHANGED <<delay_free_lock, mmap_tree_lock, hvars>>

\* realloc replaces a block the program holds, on thread t
ReallocCall(t) ==
    /\ thr[t].pc = "idle"
    /\ \E old \in live : \E n \in MemRanges :
          /\ ~Pending(old)
          /\ Unused(n[1], n[2], live \ {old})
          /\ live' = (live \ {old}) \cup {[base |-> n[1], size |-> n[2]]}
          /\ freed' = freed \ Range(n[1], n[2])
          /\ thr' = [thr EXCEPT ![t] = [pc |-> "post_realloc",
                                        blk |-> [base |-> n[1], size |-> n[2]],
                                        old |-> old]]
    /\ AllocatorFrame

\* the post-call handler of realloc runs on thread t
ReallocPost(t) ==
    /\ thr[t].pc = "post_realloc"
    /\ client_handle_realloc(thr[t].old.base, thr[t].old.size,
                             thr[t].blk.base, thr[t].blk.size)
    /\ thr' = [thr EXCEPT ![t] = Idle]
    /\ UNCHANGED <<delay_free_lock, mmap_tree_lock, hvars>>

\* the pre-call handler of free runs and the block the program holds is freed
FreeHeld ==
    \E b \in live :
        /\ ~Pending(b)
        /\ client_handle_free(HeapBlock(b))
        /\ live' = live \ {b}
        /\ freed' = freed \cup Range(b.base, b.size)

NextHeapThreads ==
    \/ \E t \in Threads : MallocCall(t)
    \/ \E t \in Threads : MallocPost(t)
    \/ \E t \in Threads : ReallocCall(t)
    \/ \E t \in Threads : ReallocPost(t)
    \/ FreeHeld

SpecHeapThreads == InitHeap /\ [][NextHeapThreads]_vars

\* ------------------------------------------------------------ signals
\* One thread's signal state (client_per_thread_t) and the handlers that
\* maintain it.  Stacks grow towards lower addresses.
PAGE_SIZE == 4096

SYS_rt_sigreturn == "SYS_rt_sigreturn"
SYS_sigaltstack == "SYS_sigaltstack"
SS_DISABLE == "SS_DISABLE"
SS_ENABLE == "0"

\* stack pointer values: an address, or one past the highest address
StackPtrs == 1..(MaxAddr + 1)

\* the application's memory before the first signal: nothing addressable in
\* the modelled range, or one buffer in use
AppShadows ==
    {[a \in Addr |-> SHADOW_UNADDRESSABLE]}
    \cup {[a \in Addr |-> IF a \in Range(r[1], r[2])
                          THEN SHADOW_DEFINED ELSE SHADOW_UNADDRESSABLE] :
             r \in MemRanges}

\* the stack_t arguments of sigaltstack: unreadable, disabling, or a new stack
\* of at least two bytes
StackArgs ==
    {[readable |-> FALSE, ss_flags |-> SS_ENABLE, ss_sp |-> NULL, ss_size |-> 0],
     [readable |-> TRUE, ss_flags |-> SS_DISABLE, ss_sp |-> NULL, ss_size |-> 0]}
    \cup {[readable |-> TRUE, ss_flags |-> SS_ENABLE, ss_sp |-> r[1], ss_size |-> r[2]] :
             r \in {q \in MemRanges : q[2] >= 2}}

NoStackArg == [readable |-> FALSE, ss_flags |-> SS_ENABLE, ss_sp |-> NULL, ss_size |-> 0]

InitSignal ==
    /\ PoolEmpty
    /\ MmapEmpty
    /\ NoSignals
    /\ NoFault
    /\ ThreadsIdle
    /\ options \in [leaks_only : BOOLEAN, shadowing : BOOLEAN,
                    delay_frees : {0}, redzone_size : {0}]
    /\ shadow \in AppShadows
    /\ delay_free_list = [i \in Slots |-> [addr |-> NULL, heap |-> NoHeap]]
    /\ delay_free_head = 0
    /\ delay_free_fill = 0
    /\ delay_free_tree = {}
    /\ recent = <<>>
    /\ asserts = {}
    /\ last = [op |-> "init"]

\* what the signal and syscall handlers leave alone
SignalFrame ==
    UNCHANGED <<options, delay_free_list, delay_free_head, delay_free_fill,
                delay_free_tree, recent, pvars, cvars, mvars, fault, asserts>>

\* event_signal_alloc: info->mcontext.xsp is the interrupted stack pointer
event_signal_alloc(xsp) ==
    /\ cpt' = [cpt EXCEPT !.signal_xsp = xsp]
    /\ last' = [op |-> "signal"]
    /\ UNCHANGED shadow
    /\ SignalFrame

\* at_signal_handler: the current xsp lies inside the recorded altstack
InAltstack(xsp) ==
    /\ cpt.sigaltstack # NULL
    /\ cpt.sigaltstack > xsp
    /\ cpt.sigaltstack - xsp < cpt.sigaltsize

\* at_signal_handler: frame_top
FrameTop(xsp) ==
    IF InAltstack(xsp)
    THEN IF cpt.sigaltstack > cpt.signal_xsp /\ cpt.signal_xsp < xsp
         THEN cpt.signal_xsp
         ELSE cpt.sigaltstack
    ELSE cpt.signal_xsp

\* at_signal_handler: the ASSERTs that fire on the path past the NULL test
\* (the bound 10*options.stack_swap_threshold of the second one is larger
\* than the modelled address range; size_t differences wrap when negative)
HandlerAsserts(xsp) ==
    (IF ShadowingEnabled THEN {} ELSE {"shadowing disabled"})
    \cup (IF ~InAltstack(xsp) /\ ~(cpt.signal_xsp > xsp)
          THEN {"on unknown signal stack"} ELSE {})
    \cup (IF FrameTop(xsp) >= xsp /\ FrameTop(xsp) - xsp < PAGE_SIZE
          THEN {} ELSE {"signal frame way too big"})

\* mutant: signal_xsp is left set after the handler entry
ResetSignalXsp_Kept(c) == c

\* cpt->signal_xsp = NULL
ResetSignalXsp(c) == [c EXCEPT !.signal_xsp = NULL]

\* at_signal_handler, with mc.xsp = xsp
at_signal_handler(xsp) ==
    /\ IF cpt.signal_xsp = NULL
       THEN /\ last' = [op |-> "handler",
                        asserted |-> (IF ShadowingEnabled THEN {}
                                      ELSE {"shadowing disabled"})
                                     \cup {"in signal handler but not for signal?"}]
            /\ UNCHANGED <<shadow, cpt>>
       ELSE /\ shadow' = shadow_set_range(shadow, xsp, FrameTop(xsp), SHADOW_DEFINED)
            /\ cpt' = ResetSignalXsp([cpt EXCEPT !.sigframe_top = FrameTop(xsp)])
            /\ last' = [op |-> "handler", asserted |-> HandlerAsserts(xsp)]
    /\ SignalFrame

\* shadow_set_range((app_pc)stk.ss_sp, cpt->sigaltstack, SHADOW_UNADDRESSABLE)
AltstackShadow(sh, stk) ==
    shadow_set_range(sh, stk.ss_sp, stk.ss_sp + stk.ss_size, SHADOW_UNADDRESSABLE)

\* client_pre_syscall (LINUX) for sigreturn and sigaltstack, with mc.xsp = xsp
\* and *sysarg[0] = stk (the ASSERT on options.stack_swap_threshold is not
\* modelled: the modelled addresses all lie within one threshold)
client_pre_syscall(sysnum, xsp, stk) ==
    /\ IF ~ShadowingEnabled
       THEN /\ UNCHANGED <<shadow, cpt>>
            /\ last' = [op |-> "pre_syscall", sysnum |-> sysnum,
                        readable |-> stk.readable, asserted |-> {},
                        shadow0 |-> shadow, cpt0 |-> cpt]
       ELSE IF sysnum = SYS_rt_sigreturn
       THEN /\ shadow' = shadow_set_range(shadow, xsp, cpt.sigframe_top,
                                          SHADOW_UNADDRESSABLE)
            /\ UNCHANGED cpt
            /\ last' = [op |-> "pre_syscall", sysnum |-> sysnum,
                        asserted |-> IF cpt.sigframe_top # NULL THEN {}
                                     ELSE {"sigreturn with no prior signal"}]
       ELSE LET saved == [cpt EXCEPT !.prev_sigaltstack = cpt.sigaltstack,
                                     !.prev_sigaltsize = cpt.sigaltsize]
            IN
            /\ IF ~stk.readable
               THEN /\ cpt' = saved
                    /\ UNCHANGED shadow
               ELSE IF stk.ss_flags = SS_DISABLE
               THEN /\ cpt' = [saved EXCEPT !.sigaltstack = NULL, !.sigaltsize = 0]
                    /\ UNCHANGED shadow
               ELSE /\ cpt' = [saved EXCEPT !.sigaltstack = stk.ss_sp + stk.ss_size,
                                            !.sigaltsize = stk.ss_size]
                    /\ shadow' = AltstackShadow(shadow, stk)
            /\ last' = [op |-> "pre_syscall", sysnum |-> sysnum,
                        readable |-> stk.readable, asserted |-> {},
                        shadow0 |-> shadow, cpt0 |-> cpt]
    /\ SignalFrame

\* cpt->sigaltstack = cpt->prev_sigaltstack; cpt->sigaltsize = cpt->prev_sigaltsize
RestoreAltstack(c) ==
    [c EXCEPT !.sigaltstack = c.prev_sigaltstack, !.sigaltsize = c.prev_sigaltsize]

\* client_post_syscall (LINUX) for sigaltstack; result is the syscall's result
client_post_syscall(sysnum, result) ==
    /\ cpt' = IF ShadowingEnabled /\ sysnum = SYS_sigaltstack /\ result # 0
              THEN RestoreAltstack(cpt)
              ELSE cpt
    /\ last' = [op |-> "post_syscall", sysnum |-> sysnum, result |-> result,
                readable |-> last.readable,
                shadow0 |-> last.shadow0, cpt0 |-> last.cpt0]
    /\ UNCHANGED shadow
    /\ SignalFrame

\* ---- the program and the kernel around the handlers
\* the thread is between the pre- and post-syscall events of sigaltstack
InSigaltstack == last.op = "pre_syscall" /\ last.sysnum = SYS_sigaltstack

\* the innermost outstanding signal
Innermost == sigs[Len(sigs)]

AwaitingHandler == sigs # <<>> /\ Innermost.handler_esp = NULL

InHandler == sigs # <<>> /\ Innermost.handler_esp # NULL

\* the kernel's test that a stack pointer is on the alternate stack
OnSigStack(sp) ==
    /\ cpt.sigaltstack # NULL
    /\ sp > cpt.sigaltstack - cpt.sigaltsize
    /\ sp <= cpt.sigaltstack

AltRange == Range(cpt.sigaltstack - cpt.sigaltsize, cpt.sigaltsize)

\* <<xsp, top>> of the frames the kernel can build for a signal that
\* interrupted the thread at S: below S on the same stack, or at the top of the
\* alternate stack when one is set and S is not on it; a frame never takes the
\* whole alternate stack
HandlerFrames(S) ==
    {<<S - f, S>> : f \in {g \in 1..MaxFrame :
                             /\ S - g >= 1
                             /\ IF OnSigStack(S)
                                THEN S - g > cpt.sigaltstack - cpt.sigaltsize
                                ELSE Range(S - g, g) \cap AltRange = {}}}
    \cup (IF cpt.sigaltstack # NULL /\ ~OnSigStack(S)
          THEN {<<cpt.sigaltstack - f, cpt.sigaltstack>> :
                   f \in {g \in 1..MaxFrame : g < cpt.sigaltsize}}
          ELSE {})

\* where the thread's stack pointer can be outside any handler: on a stack
\* that shares no byte with the alternate stack
MainStackPtrs ==
    {S \in StackPtrs : S > cpt.sigaltstack \/ S < cpt.sigaltstack - cpt.sigaltsize}

\* a signal interrupts the thread: on its main stack when no handler runs, at
\* or just below the handler's entry stack pointer when one does
SignalDeliver ==
    /\ ~AwaitingHandler
    /\ delivered < MaxSignals
    /\ delivered' = delivered + 1
    /\ ~InSigaltstack
    /\ \E S \in IF sigs = <<>> THEN MainStackPtrs
                ELSE {Innermost.handler_esp, Innermost.handler_esp - 1} \ {0, 1} :
          /\ HandlerFrames(S) # {}
          /\ event_signal_alloc(S)
          /\ sigs' = Append(sigs, [signal_xsp |-> S, handler_esp |-> NULL,
                                   top |-> NULL, frame_top |-> NULL,
                                   before |-> shadow])

\* the handler of the delivered signal is entered (its code is instrumented
\* only when shadowing is on)
HandlerEntry ==
    /\ AwaitingHandler
    /\ \E fr \in HandlerFrames(Innermost.signal_xsp) :
          /\ IF ShadowingEnabled
             THEN at_signal_handler(fr[1])
             ELSE /\ last' = [op |-> "handler", asserted |-> {}]
                  /\ UNCHANGED <<shadow, cpt>>
                  /\ SignalFrame
          /\ sigs' = [sigs EXCEPT ![Len(sigs)] =
                        [@ EXCEPT !.handler_esp = fr[1], !.top = fr[2],
                                  !.frame_top = IF ShadowingEnabled
                                                THEN FrameTop(fr[1]) ELSE NULL]]
    /\ UNCHANGED delivered

\* handler code is called as an ordinary function
PlainCall ==
    /\ ~AwaitingHandler
    /\ ShadowingEnabled
    /\ ~InSigaltstack
    /\ \E xsp \in StackPtrs : at_signal_handler(xsp)
    /\ UNCHANGED <<sigs, delivered>>

\* the handler returns through sigreturn, with its stack pointer somewhere in
\* the signal frame; or the program issues sigreturn outside a handler
Sigreturn ==
    /\ ~AwaitingHandler
    /\ ~InSigaltstack
    /\ IF InHandler
       THEN /\ \E xsp \in Innermost.handler_esp..Innermost.top :
                  client_pre_syscall(SYS_rt_sigreturn, xsp, NoStackArg)
            /\ sigs' = SubSeq(sigs, 1, Len(sigs) - 1)
            /\ UNCHANGED delivered
       ELSE /\ \E xsp \in StackPtrs :
                  client_pre_syscall(SYS_rt_sigreturn, xsp, NoStackArg)
            /\ UNCHANGED <<sigs, delivered>>

\* the program calls sigaltstack outside any handler
SigaltstackPre ==
    /\ sigs = <<>>
    /\ ~InSigaltstack
    /\ \E stk \in StackArgs : client_pre_syscall(SYS_sigaltstack, MaxAddr + 1, stk)
    /\ UNCHANGED <<sigs, delivered>>

\* the sigaltstack call returns; it fails when its argument is unreadable
SigaltstackPost ==
    /\ InSigaltstack
    /\ \E result \in IF last.readable THEN {0, -1} ELSE {-1} :
          client_post_syscall(SYS_sigaltstack, result)
    /\ UNCHANGED <<sigs, delivered>>

\* the program sets its alternate stack before the first signal arrives
SetAltstack ==
    /\ delivered = 0
    /\ cpt.sigaltstack = NULL
    /\ SigaltstackPre

NextSignal ==
    \/ SignalDeliver
    \/ HandlerEntry
    \/ PlainCall
    \/ Sigreturn
    \/ SetAltstack
    \/ SigaltstackPost

SpecSignal == InitSignal /\ [][NextSignal]_vars

\* the program changes its alternate stack any number of times
NextSigaltstack == SigaltstackPre \/ SigaltstackPost

SpecSigaltstack == InitSignal /\ [][NextSigaltstack]_vars

\* ------------------------------------------------------------ exception recognizer
\* check_unaddressable_exceptions is handed an access that the shadow check
\* found unaddressable.  `fault' holds that access: where it is, what the
\* thread and the process are, and the bytes of code around the faulting pc.
\* The decoder is not among the sources: decode knows the instructions of
\* Code, which are those quoted in the comments of the rules.

\* 32-bit immediates and displacements are kept as the int the operand
\* accessors return: 0xfefefeff is the int -0x01010101
Imm_fefefeff == -16843009
Imm_7efefeff == 2130640639
Imm_1000 == 4096

\* the byte at pc-1 is 0x94: xchg esp, eax
Byte_94 == 148

\* operands, with the fields that opnd_is_reg, opnd_is_base_disp,
\* opnd_is_immed_int (kind) and opnd_get_reg, _base, _index, _scale, _disp,
\* _immed_int, _size read
RegOpnd(r, sz) ==
    [kind |-> "reg", reg |-> r, base |-> "REG_NULL", index |-> "REG_NULL",
     scale |-> 0, disp |-> 0, immed_int |-> 0, size |-> sz]

BaseDisp(base, disp, sz) ==
    [kind |-> "base_disp", reg |-> "REG_NULL", base |-> base, index |-> "REG_NULL",
     scale |-> 0, disp |-> disp, immed_int |-> 0, size |-> sz]

ImmedInt(v, sz) ==
    [kind |-> "immed_int", reg |-> "REG_NULL", base |-> "REG_NULL",
     index |-> "REG_NULL", scale |-> 0, disp |-> 0, immed_int |-> v, size |-> sz]

\* instructions: instr_valid, instr_get_opcode, sources, destinations, and
\* the bytes that encode them
Instr(op, srcs, dsts, bytes) ==
    [valid |-> TRUE, opcode |-> op, src |-> srcs, dst |-> dsts, bytes |-> bytes]

InvalidInstr ==
    [valid |-> FALSE, opcode |-> "OP_INVALID", src |-> <<>>, dst |-> <<>>,
     bytes |-> <<255, 255>>]

instr_get_src(i, n) == i.src[n + 1]

instr_get_dst(i, n) == i.dst[n + 1]

\* the instructions of the routines the rules were written for, and a few
\* that differ from them in one operand
Code ==
    LET Eax == RegOpnd("REG_EAX", "OPSZ_PTR")
        Ecx == RegOpnd("REG_ECX", "OPSZ_PTR")
        Edx == RegOpnd("REG_EDX", "OPSZ_PTR")
        Edi == RegOpnd("REG_EDI", "OPSZ_PTR")
        Esp == RegOpnd("REG_ESP", "OPSZ_PTR")
        Al == RegOpnd("REG_AL", "OPSZ_1")
        Cl == RegOpnd("REG_CL", "OPSZ_1")
        Ptr(base, disp) == BaseDisp(base, disp, "OPSZ_PTR")
    IN  [test_ecx_eax |-> Instr("OP_test", <<Ptr("REG_ECX", 0), Eax>>, <<>>, <<133, 1>>),
         test_eax_eax |-> Instr("OP_test", <<Ptr("REG_EAX", 0), Eax>>, <<>>, <<133, 0>>),
         test_ecx4_eax |-> Instr("OP_test", <<Ptr("REG_ECX", 4), Eax>>, <<>>, <<133, 65, 4>>),
         mov_eax_eax |-> Instr("OP_mov_ld", <<Ptr("REG_EAX", 0)>>, <<Eax>>, <<139, 0>>),
         mov_eax_ecx |-> Instr("OP_mov_ld", <<Ptr("REG_ECX", 0)>>, <<Eax>>, <<139, 1>>),
         mov_eax_ecxm4 |-> Instr("OP_mov_ld", <<Ptr("REG_ECX", -4)>>, <<Eax>>, <<139, 65, 252>>),
         mov_eax_esi |-> Instr("OP_mov_ld", <<Ptr("REG_ESI", 0)>>, <<Eax>>, <<139, 6>>),
         mov_edx_esi |-> Instr("OP_mov_ld", <<Ptr("REG_ESI", 0)>>, <<Edx>>, <<139, 22>>),
         mov_ecx_ebx |-> Instr("OP_mov_ld", <<Ptr("REG_EBX", 0)>>, <<Ecx>>, <<139, 11>>),
         mov_ecx_eax |-> Instr("OP_mov_ld", <<Ptr("REG_EAX", 0)>>, <<Ecx>>, <<139, 8>>),
         mov_cl_eax |-> Instr("OP_mov_ld", <<BaseDisp("REG_EAX", 0, "OPSZ_1")>>, <<Cl>>, <<138, 8>>),
         or_ecx_0 |-> Instr("OP_or", <<ImmedInt(0, "OPSZ_1"), Ptr("REG_ECX", 0)>>,
                            <<Ptr("REG_ECX", 0)>>, <<131, 9, 0>>),
         push_eax |-> Instr("OP_push", <<Eax, Esp>>, <<Esp, Ptr("REG_ESP", -4)>>, <<80>>),
         cmp_eax_imm |-> Instr("OP_cmp", <<Eax, ImmedInt(Imm_1000, "OPSZ_PTR")>>, <<>>,
                               <<61, 0, 16, 0, 0>>),
         mov_esp_ecx |-> Instr("OP_mov_ld", <<Ecx>>, <<Esp>>, <<139, 225>>),
         xchg_eax_esp |-> Instr("OP_xchg", <<Esp, Eax>>, <<Esp, Eax>>, <<Byte_94>>),
         jmp_short |-> Instr("OP_jmp_short", <<>>, <<>>, <<235, 233>>),
         mov_edx_7efefeff |-> Instr("OP_mov_imm", <<ImmedInt(Imm_7efefeff, "OPSZ_PTR")>>,
                                    <<Edx>>, <<186, 255, 254, 254, 126>>),
         mov_edx_fefefeff |-> Instr("OP_mov_imm", <<ImmedInt(Imm_fefefeff, "OPSZ_PTR")>>,
                                    <<Edx>>, <<186, 255, 254, 254, 254>>),
         mov_edi_fefefeff |-> Instr("OP_mov_imm", <<ImmedInt(Imm_fefefeff, "OPSZ_PTR")>>,
                                    <<Edi>>, <<191, 255, 254, 254, 254>>),
         xor_ecx_edx |-> Instr("OP_xor", <<Edx, Ecx>>, <<Ecx>>, <<49, 209>>),
         test_al_al |-> Instr("OP_test", <<Al, Al>>, <<>>, <<132, 192>>),
         jz_short |-> Instr("OP_jz_short", <<>>, <<>>, <<116, 50>>),
         mov_edx_ecx |-> Instr("OP_mov_st", <<Ecx>>, <<Edx>>, <<137, 202>>),
         add_edx_eax |-> Instr("OP_add", <<Eax, Edx>>, <<Edx>>, <<3, 208>>),
         lea_eax_ecx |-> Instr("OP_lea", <<Ptr("REG_ECX", Imm_fefefeff)>>, <<Eax>>,
                               <<141, 129, 255, 254, 254, 254>>)]

\* the encodings of the loads, probes and stores that can be the faulting
\* instruction
FaultInstrs ==
    {Code[n].bytes : n \in
        {"test_ecx_eax", "test_eax_eax", "test_ecx4_eax", "mov_eax_eax",
         "mov_eax_ecx", "mov_eax_ecxm4", "mov_eax_esi", "mov_edx_esi",
         "mov_ecx_ebx", "mov_ecx_eax", "mov_cl_eax", "or_ecx_0", "push_eax"}}

\* the encodings that can follow it, one of which decodes to no instruction
NextInstrs ==
    {Code[n].bytes : n \in
        {"cmp_eax_imm", "mov_esp_ecx", "xchg_eax_esp", "jmp_short",
         "mov_edx_7efefeff", "mov_edx_fefefeff", "xor_ecx_edx", "test_al_al",
         "mov_edx_ecx", "add_edx_eax"}}
    \cup {InvalidInstr.bytes}

SecondInstrs ==
    {Code[n].bytes : n \in {"mov_edi_fefefeff", "lea_eax_ecx", "jz_short", "add_edx_eax"}}

\* the four bytes in front of the faulting pc, in memory order: 0x7efefeff
\* (the immediate of mov edx,0x7efefeff); 0xc233fff0 (f0ff 33c2); the end of
\* test [eax],eax and xchg eax,esp; the end of an add and two pushes
PrevBytes ==
    {<<255, 254, 254, 126>>, <<240, 255, 51, 194>>, <<4, 133, 0, Byte_94>>,
     <<4, 86, 83, 80>>}

\* the module the pc is in, as dr_lookup_module and is_in_client_or_DR_lib see it
NoModule == [found |-> FALSE, name |-> <<>>, client |-> FALSE]

ld_linux_so == <<"l", "d", "-", "l", "i", "n", "u", "x", ".", "s", "o", ".">>

PcModules ==
    {NoModule,
     [found |-> TRUE, name |-> ld_linux_so \o <<"2">>, client |-> FALSE],
     [found |-> TRUE, name |-> <<"l", "i", "b", "c", ".", "s", "o", ".", "6">>,
      client |-> FALSE],
     [found |-> TRUE,
      name |-> <<"l", "i", "b", "d", "r", "m", "e", "m", "o", "r", "y", ".", "s", "o">>,
      client |-> TRUE]}

\* where addr lies with respect to the TEB's TLS slots, and the slot's bit
\* in the TLS bitmap
NoTls == [array |-> "none", bit |-> FALSE]

TlsCases ==
    {NoTls} \cup [array : {"TlsSlots", "TlsExpansionSlots"}, bit : BOOLEAN]

ALIGNED(x, alignment) == x % alignment = 0

Encodings ==
    [b \in {Code[n].bytes : n \in DOMAIN Code} |->
        CHOOSE i \in {Code[n] : n \in DOMAIN Code} : i.bytes = b]

\* decode: the instruction that a sequence of code bytes encodes
decode(bytes) ==
    IF bytes \in DOMAIN Encodings THEN Encodings[bytes] ELSE InvalidInstr

\* raw: the int at dpc, as its four bytes in memory order
RawNext(f) == SubSeq(f.next \o f.next2 \o <<144, 144, 144>>, 1, 4)

\* dr_memory_is_readable over the code: f.code tells whether nothing of it is
\* readable ("none"), pc and what follows (pc starts a page), pc and what
\* precedes (the page ends within MAX_INSTR_SIZE of dpc), or all of it ("mid")
PcReadable(f) == f.code # "none"

BeforeReadable(f) == f.code \in {"page end", "mid"}

AfterReadable(f) == f.code \in {"page start", "mid"}

\* is_alloca_pattern: match
AllocaMatch(f) ==
    \E inst \in {decode(f.inst)}, next \in {decode(f.next)} :
        /\ BeforeReadable(f) /\ PcReadable(f) /\ AfterReadable(f)
        /\ IF /\ inst.opcode = "OP_test"
              /\ instr_get_src(inst, 0).kind = "base_disp"
              /\ instr_get_src(inst, 0).base \in {"REG_ECX", "REG_EAX"}
              /\ instr_get_src(inst, 0).index = "REG_NULL"
              /\ instr_get_src(inst, 0).scale = 0
              /\ instr_get_src(inst, 0).disp = 0
              /\ instr_get_src(inst, 1).kind = "reg"
              /\ instr_get_src(inst, 1).reg = "REG_EAX"
           THEN /\ next.valid
                /\ \/ /\ next.opcode = "OP_cmp"
                      /\ instr_get_src(next, 0).kind = "reg"
                      /\ instr_get_src(next, 0).reg = "REG_EAX"
                      /\ instr_get_src(next, 1).kind = "immed_int"
                   \/ /\ next.opcode \in {"OP_mov_ld", "OP_mov_st"}
                      /\ instr_get_src(next, 0).kind = "reg"
                      /\ instr_get_src(next, 0).reg = "REG_ECX"
                      /\ instr_get_dst(next, 0).kind = "reg"
                      /\ instr_get_dst(next, 0).reg = "REG_ESP"
                   \/ /\ next.opcode = "OP_xchg"
                      /\ instr_get_src(next, 0).kind = "reg"
                      /\ instr_get_src(next, 0).reg = "REG_ESP"
                   \/ next.opcode \in {"OP_jmp", "OP_jmp_short"}
           ELSE IF /\ inst.opcode = "OP_mov_ld"
                   /\ instr_get_src(inst, 0).kind = "base_disp"
                   /\ instr_get_src(inst, 0).base = "REG_EAX"
                   /\ instr_get_src(inst, 0).index = "REG_NULL"
                   /\ instr_get_src(inst, 0).scale = 0
                   /\ instr_get_src(inst, 0).disp = 0
                   /\ instr_get_dst(inst, 0).kind = "reg"
                   /\ instr_get_dst(inst, 0).reg = "REG_EAX"
                   /\ f.prev[4] = Byte_94
           THEN TRUE
           ELSE /\ inst.opcode = "OP_or"
                /\ instr_get_dst(inst, 0).kind = "base_disp"
                /\ instr_get_dst(inst, 0).base = "REG_ECX"
                /\ instr_get_dst(inst, 0).index = "REG_NULL"
                /\ instr_get_dst(inst, 0).scale = 0
                /\ instr_get_dst(inst, 0).disp = 0
                /\ instr_get_src(inst, 0).kind = "immed_int"
                /\ instr_get_src(inst, 0).immed_int = 0

\* a probe that commits the page reports *now_addressable = true
is_alloca_pattern_Addressable(f, now_addressable) ==
    [match |-> AllocaMatch(f),
     now_addressable |-> IF AllocaMatch(f) THEN TRUE ELSE now_addressable]

\* is_alloca_pattern: every match stores *now_addressable = false
is_alloca_pattern(f, now_addressable) ==
    [match |-> AllocaMatch(f),
     now_addressable |-> IF AllocaMatch(f) THEN FALSE ELSE now_addressable]

\* is_strlen_pattern: match
StrlenMatch(f) ==
    \E inst \in {decode(f.inst)}, next \in {decode(f.next)} :
            /\ BeforeReadable(f) /\ PcReadable(f) /\ AfterReadable(f)
            /\ IF /\ ~ALIGNED(f.addr, 4)
                  /\ inst.opcode = "OP_mov_ld"
                  /\ instr_get_src(inst, 0).kind = "base_disp"
                  /\ instr_get_src(inst, 0).base = "REG_ECX"
                  /\ instr_get_src(inst, 0).index = "REG_NULL"
                  /\ instr_get_src(inst, 0).scale = 0
                  /\ instr_get_src(inst, 0).disp \in {0, -4}
                  /\ instr_get_dst(inst, 0).kind = "reg"
                  /\ instr_get_dst(inst, 0).reg = "REG_EAX"
               THEN /\ next.valid
                    /\ \/ RawNext(f) = <<132, 192, 116, 50>>  \* 0x3274c084
                       \/ /\ next.opcode = "OP_mov_imm"
                          /\ instr_get_src(next, 0).kind = "immed_int"
                          /\ instr_get_src(next, 0).immed_int = Imm_7efefeff
                          /\ instr_get_dst(next, 0).kind = "reg"
                          /\ instr_get_dst(next, 0).reg = "REG_EDX"
               ELSE /\ ~ALIGNED(f.addr, 4)
                    /\ inst.opcode = "OP_mov_ld"
                    /\ instr_get_src(inst, 0).kind = "base_disp"
                    /\ instr_get_src(inst, 0).base = "REG_ESI"
                    /\ instr_get_src(inst, 0).index = "REG_NULL"
                    /\ instr_get_src(inst, 0).scale = 0
                    /\ instr_get_src(inst, 0).disp = 0
                    /\ instr_get_dst(inst, 0).kind = "reg"
                    /\ instr_get_dst(inst, 0).reg \in {"REG_EAX", "REG_EDX"}
                    \* the int at pc-4 is 0x7efefeff or 0xc233fff0
                    /\ f.prev \in {<<255, 254, 254, 126>>, <<240, 255, 51, 194>>}

\* is_strlen_pattern: every match stores *now_addressable = false
is_strlen_pattern(f, now_addressable) ==
    [match |-> StrlenMatch(f),
     now_addressable |-> IF StrlenMatch(f) THEN FALSE ELSE now_addressable]

\* is_strcpy_pattern: match
StrcpyMatch(f) ==
    \E inst \in {decode(f.inst)}, next \in {decode(f.next)},
       next2 \in {decode(f.next2)} :
            /\ AfterReadable(f)
            /\ ~ALIGNED(f.addr, 4)
            /\ inst.opcode = "OP_mov_ld"
            /\ instr_get_src(inst, 0).kind = "base_disp"
            /\ instr_get_src(inst, 0).base = "REG_EBX"
            /\ instr_get_src(inst, 0).index = "REG_NULL"
            /\ instr_get_src(inst, 0).scale = 0
            /\ instr_get_src(inst, 0).disp = 0
            /\ instr_get_dst(inst, 0).kind = "reg"
            /\ instr_get_dst(inst, 0).reg = "REG_ECX"
            /\ next.valid
            /\ next2.valid
            /\ next2.opcode = "OP_lea"
            /\ instr_get_src(next2, 0).base = "REG_ECX"
            /\ instr_get_src(next2, 0).index = "REG_NULL"
            /\ instr_get_src(next2, 0).scale = 0
            /\ instr_get_src(next2, 0).disp = Imm_fefefeff
            /\ instr_get_dst(next2, 0).kind = "reg"
            /\ instr_get_dst(next2, 0).reg = "REG_EAX"

\* is_strcpy_pattern: every match stores *now_addressable = false
is_strcpy_pattern(f, now_addressable) ==
    [match |-> StrcpyMatch(f),
     now_addressable |-> IF StrcpyMatch(f) THEN FALSE ELSE now_addressable]

\* is_rawmemchr_pattern: the load, with the test of addr left out
RawmemchrLoad_AnyAddr(f) ==
    \E inst \in {decode(f.inst)} :
        /\ inst.opcode = "OP_mov_ld"
        /\ instr_get_dst(inst, 0).kind = "reg"
        /\ instr_get_dst(inst, 0).size = "OPSZ_PTR"

\* is_rawmemchr_pattern: the load
RawmemchrLoad(f) ==
    \E inst \in {decode(f.inst)} :
        /\ ~ALIGNED(f.addr, 4)
        /\ inst.opcode = "OP_mov_ld"
        /\ instr_get_dst(inst, 0).kind = "reg"
        /\ instr_get_dst(inst, 0).size = "OPSZ_PTR"

\* is_rawmemchr_pattern: match; an xor of two pointer-sized registers after
\* the load is skipped
RawmemchrMatch(f) ==
    \E first \in {decode(f.next)} :
    \E next \in {IF /\ first.valid
                     /\ first.opcode = "OP_xor"
                     /\ instr_get_src(first, 0).kind = "reg"
                     /\ instr_get_dst(first, 0).kind = "reg"
                     /\ instr_get_dst(first, 0).size = "OPSZ_PTR"
                  THEN decode(f.next2) ELSE first} :
        /\ AfterReadable(f)
        /\ RawmemchrLoad(f)
        /\ next.valid
        /\ next.opcode = "OP_mov_imm"
        /\ instr_get_src(next, 0).immed_int \in {Imm_fefefeff, Imm_7efefeff}
        /\ instr_get_dst(next, 0).kind = "reg"

\* is_rawmemchr_pattern: every match stores *now_addressable = false
is_rawmemchr_pattern(f, now_addressable) ==
    [match |-> RawmemchrMatch(f),
     now_addressable |-> IF RawmemchrMatch(f) THEN FALSE ELSE now_addressable]

\* the outcome of a rule or of the recognizer: the result, *now_addressable,
\* and (history) the rules consulted and the one that matched
Outcome(match, now_addressable, consulted, rule) ==
    [match |-> match, now_addressable |-> now_addressable,
     consulted |-> consulted, matched |-> IF match THEN rule ELSE "none"]

\* is_ok_unaddressable_pattern: the rules are tried for any location
PatternsTried_AnyLoc(f) == f.addr_readable /\ PcReadable(f)

\* is_ok_unaddressable_pattern: the tests before the rules are tried
PatternsTried(f) == f.loc = "APP_LOC_PC" /\ f.addr_readable /\ PcReadable(f)

\* is_ok_unaddressable_pattern, without its store to shadow memory
OkUnaddressablePattern(f) ==
    LET alloca == is_alloca_pattern(f, FALSE)
        strlen == is_strlen_pattern(f, alloca.now_addressable)
        strcpy == is_strcpy_pattern(f, strlen.now_addressable)
        rawmemchr == is_rawmemchr_pattern(f, strcpy.now_addressable)
    IN  IF ~PatternsTried(f) THEN Outcome(FALSE, FALSE, {}, "none")
        ELSE IF alloca.match
        THEN Outcome(TRUE, alloca.now_addressable, {"alloca"}, "alloca")
        ELSE IF strlen.match
        THEN Outcome(TRUE, strlen.now_addressable, {"alloca", "strlen"}, "strlen")
        ELSE IF strcpy.match
        THEN Outcome(TRUE, strcpy.now_addressable,
                     {"alloca", "strlen", "strcpy"}, "strcpy")
        ELSE Outcome(rawmemchr.match, rawmemchr.now_addressable,
                     {"alloca", "strlen", "strcpy", "rawmemchr"}, "rawmemchr")

\* the end of a call: if (now_addressable) shadow_set_byte(addr,
\* SHADOW_UNDEFINED), and the result
Conclude(op, f, r) ==
    /\ shadow' = IF r.now_addressable
                 THEN [shadow EXCEPT ![f.addr] = SHADOW_UNDEFINED]
                 ELSE shadow
    /\ last' = [op |-> op, result |-> r.match, consulted |-> r.consulted,
                matched |-> r.matched, now_addressable |-> r.now_addressable]

\* is_ok_unaddressable_pattern
is_ok_unaddressable_pattern(f) == Conclude("pattern", f, OkUnaddressablePattern(f))

strncmp(a, b, n) ==
    IF SubSeq(a, 1, IF Len(a) < n THEN Len(a) ELSE n)
         = SubSeq(b, 1, IF Len(b) < n THEN Len(b) ELSE n)
    THEN 0 ELSE 1

\* is_loader_exception (LINUX)
is_loader_exception(f) ==
    /\ f.addr_in_lib
    /\ f.pc_module.found
    /\ \/ strncmp(f.pc_module.name, ld_linux_so, 12) = 0
       \/ f.pc_module.client

\* check_unaddressable_exceptions, without the store to shadow memory
UnaddressableException(f) ==
    IF f.in_heap_region /\ f.in_heap_routine > 0
    THEN Outcome(TRUE, FALSE, {"heap"}, "heap")
    ELSE IF f.platform = "WINDOWS" /\ f.tls.array # "none"
    THEN Outcome(f.tls.bit, FALSE, {"heap", "tls"}, "tls")
    ELSE IF f.platform = "LINUX" /\ is_loader_exception(f)
    THEN Outcome(TRUE, FALSE, {"heap", "loader"}, "loader")
    ELSE LET r == OkUnaddressablePattern(f)
         IN  [r EXCEPT !.consulted =
                  @ \cup (IF f.platform = "WINDOWS" THEN {"heap", "tls"}
                          ELSE {"heap", "loader"})]

\* check_unaddressable_exceptions
check_unaddressable_exceptions(f) == Conclude("unaddr", f, UnaddressableException(f))

\* the access at address a, readable or not, made by code c of a thread in
\* surroundings e
Fault(e, a, ar, c, code) ==
    [pending |-> TRUE, platform |-> e.platform, loc |-> e.loc, addr |-> a,
     addr_readable |-> ar, in_heap_region |-> e.in_heap_region,
     in_heap_routine |-> e.in_heap_routine, tls |-> e.tls,
     addr_in_lib |-> e.addr_in_lib, pc_module |-> e.pc_module,
     inst |-> c[1], next |-> c[2], next2 |-> c[3], prev |-> c[4], code |-> code]

\* code sequences from the routines the rules were written for, and two
\* that are none of them
Snippets ==
    {<<Code[c[1]].bytes, Code[c[2]].bytes, Code[c[3]].bytes, c[4]>> : c \in
        {<<"test_ecx_eax", "cmp_eax_imm", "jmp_short", <<4, 86, 83, 80>>>>,
         <<"mov_eax_eax", "add_edx_eax", "jz_short", <<4, 133, 0, Byte_94>>>>,
         <<"mov_eax_ecxm4", "test_al_al", "jz_short", <<4, 86, 83, 80>>>>,
         <<"mov_ecx_ebx", "mov_edx_ecx", "lea_eax_ecx", <<4, 86, 83, 80>>>>,
         <<"mov_ecx_eax", "xor_ecx_edx", "mov_edi_fefefeff", <<4, 86, 83, 80>>>>,
         <<"push_eax", "add_edx_eax", "add_edx_eax", <<4, 86, 83, 80>>>>,
         <<"mov_eax_ecx", "add_edx_eax", "add_edx_eax", <<4, 86, 83, 80>>>>}}

\* the thread, the process and the module of the pc, per platform; the TEB
\* is not heap memory, and a system call has no pc in a module
Surroundings ==
    {e \in [platform : {"WINDOWS", "LINUX"},
            loc : {"APP_LOC_PC", "APP_LOC_SYSCALL"},
            in_heap_region : BOOLEAN, in_heap_routine : 0..1,
            tls : TlsCases, addr_in_lib : BOOLEAN, pc_module : PcModules] :
        /\ e.platform = "LINUX" => e.tls = NoTls
        /\ e.platform = "WINDOWS" => ~e.addr_in_lib /\ e.pc_module = NoModule
        /\ e.tls # NoTls => ~e.in_heap_region
        /\ e.loc = "APP_LOC_SYSCALL" => e.pc_module = NoModule}

\* surroundings in which only the pattern rules can decide
PatternSurroundings ==
    [platform |-> "WINDOWS", loc |-> "APP_LOC_PC", in_heap_region |-> FALSE,
     in_heap_routine |-> 0, tls |-> NoTls, addr_in_lib |-> FALSE,
     pc_module |-> NoModule]

\* the access f is about to be examined; the byte at f.addr is unaddressable
\* and the memory around it is not in use (around = UNADDRESSABLE) or in use
InitRecognizer(f, around) ==
    /\ PoolEmpty
    /\ MmapEmpty
    /\ NoSignals
    /\ ThreadsIdle
    /\ options = [leaks_only |-> FALSE, shadowing |-> TRUE,
                  delay_frees |-> 0, redzone_size |-> 0]
    /\ fault = f
    /\ shadow = [b \in Addr |-> IF b = f.addr THEN SHADOW_UNADDRESSABLE ELSE around]
    /\ delay_free_list = [i \in Slots |-> [addr |-> NULL, heap |-> NoHeap]]
    /\ delay_free_head = 0
    /\ delay_free_fill = 0
    /\ delay_free_tree = {}
    /\ recent = <<>>
    /\ asserts = {}
    /\ last = [op |-> "init"]

\* accesses that only the pattern rules can decide, over every combination
\* of the instructions
InitPatterns ==
    \E a \in Addr, ar \in BOOLEAN,
       code \in {"none", "page start", "page end", "mid"},
       c \in FaultInstrs \X NextInstrs \X SecondInstrs \X PrevBytes :
        InitRecognizer(Fault(PatternSurroundings, a, ar, c, code), SHADOW_UNADDRESSABLE)

\* accesses that any rule can decide
InitExceptions ==
    \E e \in Surroundings, a \in Addr, ar \in BOOLEAN,
       code \in {"none", "page start", "page end", "mid"}, c \in Snippets,
       around \in {SHADOW_UNADDRESSABLE, SHADOW_DEFINED} :
        InitRecognizer(Fault(e, a, ar, c, code), around)

\* what the recognizer leaves alone
RecognizerFrame ==
    UNCHANGED <<options, delay_free_list, delay_free_head, delay_free_fill,
                delay_free_tree, recent, pvars, cvars, mvars, svars, fault, asserts>>

\* the pattern rules are applied to the access
CheckPattern ==
    /\ last.op = "init"
    /\ is_ok_unaddressable_pattern(fault)
    /\ RecognizerFrame

\* the recognizer is applied to the access
CheckUnaddressable ==
    /\ last.op = "init"
    /\ check_unaddressable_exceptions(fault)
    /\ RecognizerFrame

NextPatterns == CheckPattern

SpecPatterns == InitPatterns /\ [][NextPatterns]_vars

NextExceptions == CheckUnaddressable

SpecExceptions == InitExceptions /\ [][NextExceptions]_vars

\* ------------------------------------------------------------ reads and probes
\* Code addresses are offsets from pc: the faulting instruction is at 0, the
\* next one at dpc = its length, the bytes before pc at -4..-1.
MAX_INSTR_SIZE == 17

\* whether the byte at offset o from pc is readable, for each layout of
\* f.code: in "page end" the page ends right after the byte at pc
Readable(f, o) ==
    CASE f.code = "none" -> FALSE
      [] f.code = "page start" -> o >= 0
      [] f.code = "page end" -> o <= 0
      [] f.code = "mid" -> TRUE

\* dr_memory_is_readable(pc + lo, n)
dr_memory_is_readable(f, lo, n) == \A o \in lo..(lo + n - 1) : Readable(f, o)

\* the probes and the reads of code bytes that one call of
\* is_ok_unaddressable_pattern makes, in program order; [lo, hi) are offsets
\* from pc
Accesses(f) ==
    LET inst == decode(f.inst)
        next == decode(f.next)
        dpc == Len(f.inst)
        dpc2 == Len(f.inst) + Len(f.next)
        Probe(lo, n) == [kind |-> "probe", lo |-> lo, hi |-> lo + n,
                         ok |-> dr_memory_is_readable(f, lo, n)]
        Read(lo, n) == [kind |-> "read", lo |-> lo, hi |-> lo + n, ok |-> TRUE]
        MemOpnd(o, bases, disps) == /\ o.kind = "base_disp"
                                    /\ o.base \in bases
                                    /\ o.index = "REG_NULL"
                                    /\ o.scale = 0
                                    /\ o.disp \in disps
        Reg(o, regs) == o.kind = "reg" /\ o.reg \in regs
        \* is_alloca_pattern
        alloca ==
            <<Probe(-1, dpc + 1 + MAX_INSTR_SIZE)>> \o
            IF ~dr_memory_is_readable(f, -1, dpc + 1 + MAX_INSTR_SIZE) THEN <<>>
            ELSE IF /\ inst.opcode = "OP_test"
                    /\ MemOpnd(instr_get_src(inst, 0), {"REG_ECX", "REG_EAX"}, {0})
                    /\ Reg(instr_get_src(inst, 1), {"REG_EAX"})
            THEN <<Read(dpc, Len(f.next))>>
            ELSE IF /\ inst.opcode = "OP_mov_ld"
                    /\ MemOpnd(instr_get_src(inst, 0), {"REG_EAX"}, {0})
                    /\ Reg(instr_get_dst(inst, 0), {"REG_EAX"})
            THEN <<Read(-1, 1)>>
            ELSE <<>>
        \* is_strlen_pattern
        strlen ==
            <<Probe(-4, dpc + 4 + MAX_INSTR_SIZE)>> \o
            IF ~dr_memory_is_readable(f, -4, dpc + 4 + MAX_INSTR_SIZE) THEN <<>>
            ELSE IF /\ ~ALIGNED(f.addr, 4)
                    /\ inst.opcode = "OP_mov_ld"
                    /\ MemOpnd(instr_get_src(inst, 0), {"REG_ECX"}, {0, -4})
                    /\ Reg(instr_get_dst(inst, 0), {"REG_EAX"})
            THEN <<Read(dpc, 4), Read(dpc, Len(f.next))>>
            ELSE IF /\ ~ALIGNED(f.addr, 4)
                    /\ inst.opcode = "OP_mov_ld"
                    /\ MemOpnd(instr_get_src(inst, 0), {"REG_ESI"}, {0})
                    /\ Reg(instr_get_dst(inst, 0), {"REG_EAX", "REG_EDX"})
            THEN <<Read(-4, 4)>>
            ELSE <<>>
        \* is_strcpy_pattern: the second decode is not probed again
        strcpy ==
            <<Probe(dpc, MAX_INSTR_SIZE)>> \o
            IF ~dr_memory_is_readable(f, dpc, MAX_INSTR_SIZE) THEN <<>>
            ELSE IF /\ ~ALIGNED(f.addr, 4)
                    /\ inst.opcode = "OP_mov_ld"
                    /\ MemOpnd(instr_get_src(inst, 0), {"REG_EBX"}, {0})
                    /\ Reg(instr_get_dst(inst, 0), {"REG_ECX"})
            THEN <<Read(dpc, Len(f.next))>> \o
                 (IF next.valid THEN <<Read(dpc2, Len(f.next2))>> ELSE <<>>)
            ELSE <<>>
        \* is_rawmemchr_pattern: the instruction after a skipped xor is
        \* probed again
        rawmemchr ==
            <<Probe(dpc, MAX_INSTR_SIZE)>> \o
            IF ~dr_memory_is_readable(f, dpc, MAX_INSTR_SIZE) THEN <<>>
            ELSE <<Read(dpc, Len(f.next))>> \o
                 IF /\ RawmemchrLoad(f)
                    /\ next.valid
                    /\ next.opcode = "OP_xor"
                    /\ instr_get_src(next, 0).kind = "reg"
                    /\ instr_get_dst(next, 0).kind = "reg"
                    /\ instr_get_dst(next, 0).size = "OPSZ_PTR"
                 THEN <<Probe(dpc2, MAX_INSTR_SIZE)>> \o
                      (IF dr_memory_is_readable(f, dpc2, MAX_INSTR_SIZE)
                       THEN <<Read(dpc2, Len(f.next2))>> ELSE <<>>)
                 ELSE <<>>
    IN  IF ~(f.loc = "APP_LOC_PC" /\ f.addr_readable) THEN <<>>
        ELSE <<Probe(0, 1)>> \o
             IF ~dr_memory_is_readable(f, 0, 1) THEN <<>>
             ELSE <<Read(0, dpc)>> \o alloca \o
                  IF AllocaMatch(f) THEN <<>>
                  ELSE strlen \o
                       IF StrlenMatch(f) THEN <<>>
                       ELSE strcpy \o
                            IF StrcpyMatch(f) THEN <<>> ELSE rawmemchr

\* ------------------------------------------------------------ reporter calls
\* The handlers of SpecHeap, taken in two or three steps: the part that
\* writes shadow memory and the calls of report_malloc, in the order of the
\* source.  report_malloc is outside the sources; a call of it is recorded in
\* `last' with the routine name it is given.  One handler runs at a time.

\* the reporter has been called and the handler that called it has not
\* returned: "free" is reported on entry of client_handle_free, and
\* "realloc-old" is followed by the call for "realloc-new"
ReportedMidHandler ==
    last.op = "report_malloc" /\ last.routine \in {"free", "realloc-old"}

\* a handler has done its shadow writes and not yet called the reporter
ReportDue == last.op \in {"malloc", "realloc"}

\* no handler is running
NoHandler == ~ReportedMidHandler /\ ~ReportDue

\* report_malloc(base, base + size, routine, mc)
report_malloc(routine, b) ==
    /\ last' = [op |-> "report_malloc", routine |-> routine, blk |-> b]
    /\ UNCHANGED <<qvars, pvars, cvars, mvars, svars, fault, asserts>>

\* client_handle_malloc up to its call of report_malloc
MallocWrites == NoHandler /\ Malloc

\* client_handle_malloc: report_malloc(base, base + size, "malloc", mc)
MallocReport ==
    /\ last.op = "malloc"
    /\ report_malloc("malloc", NoBlock(NoHeap))

\* client_handle_realloc up to its first call of report_malloc
ReallocWrites == NoHandler /\ Realloc

\* client_handle_realloc: report_malloc(old_base, ..., "realloc-old", mc)
ReallocReportOld ==
    /\ last.op = "realloc"
    /\ report_malloc("realloc-old", NoBlock(NoHeap))

\* client_handle_realloc: report_malloc(new_base, ..., "realloc-new", mc)
ReallocReportNew ==
    /\ last.op = "report_malloc"
    /\ last.routine = "realloc-old"
    /\ report_malloc("realloc-new", NoBlock(NoHeap))

\* client_handle_free: report_malloc(base, base + size, "free", mc), its
\* first statement
FreeReport ==
    /\ NoHandler
    /\ \E b \in live : report_malloc("free", HeapBlock(b))

\* client_handle_free after its call of report_malloc, and the block is freed
FreeWrites ==
    /\ last.op = "report_malloc"
    /\ last.routine = "free"
    /\ client_handle_free(last.blk)
    /\ live' = {b \in live : HeapBlock(b) # last.blk}
    /\ freed' = freed \cup Range(last.blk.base, last.blk.size)

NextReport ==
    \/ MallocWrites
    \/ MallocReport
    \/ ReallocWrites
    \/ ReallocReportOld
    \/ ReallocReportNew
    \/ FreeReport
    \/ FreeWrites

SpecReport == InitHeap /\ [][NextReport]_vars

\* ------------------------------------------------------------ locks
\* The handlers that take mmap_tree_lock or delay_free_lock, on several
\* threads: one step per lock operation and one for what is done under the
\* lock.  client_handle_free and overlaps_delayed_free are the steps of
\* SpecThreads.
InitLocks ==
    /\ InitThreads
    /\ options.redzone_size = 0
    /\ options.delay_frees = 1

\* the regions the mmap handlers of this specification are called with
LockRanges == {r \in MemRanges : r[1] = 1 /\ r[2] <= 2}

\* client_handle_heap_destroy: dr_mutex_lock(delay_free_lock)
DestroyLock(t) ==
    /\ thr[t].pc = "idle"
    /\ delay_free_lock = NoThread
    /\ delay_free_lock' = t
    /\ thr' = [thr EXCEPT ![t].pc = "destroy_sweep"]
    /\ UNCHANGED <<qvars, pvars, svars, fault, mvars, mmap_tree_lock, asserts, last>>

\* the loop over the slots of the destroyed heap
DestroySweep(t) ==
    /\ thr[t].pc = "destroy_sweep"
    /\ \E heap \in Heaps :
          LET hit == {i \in Slots : i < delay_free_fill /\ delay_free_list[i].heap = heap}
              missing == {i \in hit :
                             rb_find(delay_free_tree, delay_free_list[i].addr) = {}}
          IN /\ delay_free_tree' =
                   {n \in delay_free_tree :
                       \A i \in hit : n.base # delay_free_list[i].addr}
             /\ delay_free_list' =
                   [i \in Slots |-> IF i \in hit
                                    THEN [delay_free_list[i] EXCEPT !.addr = NULL]
                                    ELSE delay_free_list[i]]
             /\ asserts' = IF missing # {}
                           THEN asserts \cup {"delay_free_tree inconsistent"}
                           ELSE asserts
             /\ recent' = Sweep(recent, heap)
    /\ thr' = [thr EXCEPT ![t].pc = "destroy_unlock"]
    /\ UNCHANGED <<options, shadow, delay_free_head, delay_free_fill, pvars,
                   svars, fault, mvars, delay_free_lock, mmap_tree_lock, last>>

\* mutant: client_handle_heap_destroy returns with the lock held
DestroyUnlock_Held(t) ==
    /\ thr[t].pc = "destroy_unlock"
    /\ thr' = [thr EXCEPT ![t] = Idle]
    /\ UNCHANGED <<qvars, pvars, svars, fault, mvars, delay_free_lock,
                   mmap_tree_lock, asserts, last>>

\* dr_mutex_unlock(delay_free_lock)
DestroyUnlock(t) ==
    /\ thr[t].pc = "destroy_unlock"
    /\ delay_free_lock' = NoThread
    /\ thr' = [thr EXCEPT ![t] = Idle]
    /\ UNCHANGED <<qvars, pvars, svars, fault, mvars, mmap_tree_lock, asserts, last>>

\* mmap_tree_add, mmap_tree_remove, mmap_anon_lookup:
\* dr_mutex_lock(mmap_tree_lock)
MmapLock(t) ==
    /\ thr[t].pc = "idle"
    /\ mmap_tree_lock = NoThread
    /\ mmap_tree_lock' = t
    /\ \E f \in {"mmap_tree_add", "mmap_tree_remove", "mmap_anon_lookup"} :
          thr' = [thr EXCEPT ![t].pc = f]
    /\ UNCHANGED <<qvars, pvars, svars, fault, mvars, delay_free_lock, asserts, last>>

\* what the three functions do to the tree while they hold the lock
MmapCritical(t) ==
    /\ thr[t].pc \in {"mmap_tree_add", "mmap_tree_remove", "mmap_anon_lookup"}
    /\ \E r \in LockRanges :
          mmap_tree' \in
              CASE thr[t].pc = "mmap_tree_add" ->
                      {a.tree : a \in mmap_tree_add(mmap_tree, r[1], r[2])}
                [] thr[t].pc = "mmap_tree_remove" ->
                      {mmap_tree_remove(mmap_tree, r[1], r[2])}
                [] thr[t].pc = "mmap_anon_lookup" -> {mmap_tree}
    /\ thr' = [thr EXCEPT ![t].pc = "mmap_unlock"]
    /\ UNCHANGED <<qvars, pvars, svars, fault, hvars, delay_free_lock,
                   mmap_tree_lock, asserts, last>>

\* dr_mutex_unlock(mmap_tree_lock)
MmapUnlock(t) ==
    /\ thr[t].pc = "mmap_unlock"
    /\ mmap_tree_lock' = NoThread
    /\ thr' = [thr EXCEPT ![t] = Idle]
    /\ UNCHANGED <<qvars, pvars, svars, fault, mvars, delay_free_lock, asserts, last>>

\* a step of thread t
LockStep(t) ==
    \/ FreeEnter(t) \/ FreeLock(t) \/ FreeCritical(t) \/ FreeUnlock(t)
    \/ OvLock(t) \/ OvQuery(t) \/ OvUnlock(t)
    \/ DestroyLock(t) \/ DestroySweep(t) \/ DestroyUnlock(t)
    \/ MmapLock(t) \/ MmapCritical(t) \/ MmapUnlock(t)

NextLocks == \E t \in Threads : LockStep(t)

SpecLocks == InitLocks /\ [][NextLocks]_vars

\* ------------------------------------------------------------ heap destroy
\* The quarantine under client_handle_free and client_handle_heap_destroy
\* alone, with the quarantine in use.
InitDestroy ==
    /\ InitQuarantine
    /\ QuarantineEnabled

NextDestroy == Free \/ HeapDestroy

SpecDestroy == InitDestroy /\ [][NextDestroy]_vars

\* ------------------------------------------------------------ callbacks
\* client_handle_Ki and client_handle_cbret: the kernel has put data on the
\* stack below the old stack pointer and calls into the application.
\* Addresses stand for bytes of the thread's stack and of what lies above it.
TYPICAL_STACK_MIN_SIZE == 3

\* teb->StackBase: one past the last byte of the stack
StackBases == Addr \cup {MaxAddr + 1}

\* the shadow outside the modelled addresses is unaddressable and not written
shadow_get_byte(sh, a) == IF a \in Addr THEN sh[a] ELSE SHADOW_UNADDRESSABLE

shadow_set_byte(sh, a, val) == IF a \in Addr THEN [sh EXCEPT ![a] = val] ELSE sh

\* if (sp < base_esp && base_esp - sp < TYPICAL_STACK_MIN_SIZE) stop_esp = base_esp
StopEsp(esp, base_esp) ==
    IF esp < base_esp /\ base_esp - esp < TYPICAL_STACK_MIN_SIZE THEN base_esp ELSE NULL

\* the while loop of client_handle_Ki from sp on: the shadow, the address
\* where it stops and whether it has given up
RECURSIVE KiWalk(_, _, _, _)
KiWalk(sh, sp, esp, stop_esp) ==
    IF \/ stop_esp # NULL /\ sp < stop_esp
       \/ stop_esp = NULL /\ shadow_get_byte(sh, sp) = SHADOW_UNADDRESSABLE
    THEN IF (sp + 1) - esp >= TYPICAL_STACK_MIN_SIZE
         THEN [shadow |-> shadow_set_byte(sh, sp, SHADOW_DEFINED), sp |-> sp + 1,
               abort |-> TRUE]
         ELSE KiWalk(shadow_set_byte(sh, sp, SHADOW_DEFINED), sp + 1, esp, stop_esp)
    ELSE [shadow |-> sh, sp |-> sp, abort |-> FALSE]

CallbackFrame ==
    UNCHANGED <<options, delay_free_list, delay_free_head, delay_free_fill,
                delay_free_tree, recent, pvars, cvars, mvars, sigs, delivered, fault>>

client_handle_Ki(esp, base_esp) ==
    /\ IF ShadowingEnabled
       THEN \E w \in {KiWalk(shadow, esp, esp, StopEsp(esp, base_esp))} :
               /\ shadow' = w.shadow
               /\ cpt' = [cpt EXCEPT !.pre_callback_esp = w.sp]
               /\ asserts' =
                     IF w.abort
                     THEN asserts \cup {"kernel-placed data on stack too large: error?"}
                     ELSE asserts
       ELSE UNCHANGED <<shadow, cpt, asserts>>
    /\ last' = [op |-> "Ki"]
    /\ CallbackFrame

\* for (; sp < cpt_parent->pre_callback_esp; sp++)
\*     shadow_set_byte(sp, SHADOW_UNADDRESSABLE)
client_handle_cbret(esp) ==
    /\ shadow' = IF ShadowingEnabled
                 THEN shadow_set_range(shadow, esp, cpt.pre_callback_esp,
                                       SHADOW_UNADDRESSABLE)
                 ELSE shadow
    /\ last' = [op |-> "cbret"]
    /\ UNCHANGED <<cpt, asserts>>
    /\ CallbackFrame

\* the stack before the kernel writes to it: unaddressable below the stack
\* pointer, in use from there on
StackShadows ==
    {sh \in [Addr -> {SHADOW_UNADDRESSABLE, SHADOW_UNDEFINED, SHADOW_DEFINED}] :
        \E top \in StackBases :
            \A a \in Addr : (sh[a] = SHADOW_UNADDRESSABLE) <=> (a < top)}

InitCallback ==
    /\ PoolEmpty
    /\ MmapEmpty
    /\ NoSignals
    /\ NoFault
    /\ ThreadsIdle
    /\ options \in [leaks_only : BOOLEAN, shadowing : BOOLEAN,
                    delay_frees : {0}, redzone_size : {0}]
    /\ shadow \in StackShadows
    /\ delay_free_list = [i \in Slots |-> [addr |-> NULL, heap |-> NoHeap]]
    /\ delay_free_head = 0
    /\ delay_free_fill = 0
    /\ delay_free_tree = {}
    /\ recent = <<>>
    /\ asserts = {}
    /\ last = [op |-> "init"]

Ki == \E esp \in Addr : \E base_esp \in StackBases : client_handle_Ki(esp, base_esp)

\* the callback that client_handle_Ki announced returns
Cbret == \E esp \in StackPtrs : last.op = "Ki" /\ client_handle_cbret(esp)

NextCallback == Ki \/ Cbret

SpecCallback == InitCallback /\ [][NextCallback]_vars

\* ================================================================ claims
\* The quarantine is enabled: shadowing on and delay_frees = N >= 1.
QuarantineOn ==
    /\ options.leaks_only = FALSE
    /\ options.shadowing = TRUE
    /\ options.delay_frees >= 1

PendingBases == {b.real_base : b \in Quarantined}

AppRealSize(b) ==
    IF b.base = b.real_base THEN b.size ELSE b.size + 2 * options.redzone_size

\* C1: with the quarantine enabled, the N-th client_handle_free call after the
\* one that enqueued block X (the call made when X has become the oldest of N
\* pending blocks) returns X's real_base, and no earlier call returns it: a
\* call returns the real_base of no pending block but the oldest of N.
C1_FifoRotation ==
    [][(QuarantineOn /\ last'.op = "free") =>
         /\ (Len(recent) = options.delay_frees /\ ~recent[1].swept)
               => last'.ret = recent[1].blk.real_base
         /\ Len(recent) < options.delay_frees => last'.ret = NULL
         /\ \A i \in 1..Len(recent) :
               (~recent[i].swept /\ (i > 1 \/ Len(recent) < options.delay_frees))
                  => last'.ret # recent[i].blk.real_base]_vars

C1_Witness ==
    /\ QuarantineOn
    /\ options.delay_frees >= 2
    /\ last.op = "free"
    /\ last.ret # NULL
    /\ delay_free_head = 0

\* C2 (as claimed): every range inside the app body of a block whose real free
\* is pending (one of the most recent min(k, delay_frees) freed blocks, not
\* removed by a heap-destroy sweep) is reported as a hit, and a reported hit
\* always lies on such a block.
C2_OverlapSetAsClaimed ==
    QuarantineOn =>
      /\ \A b \in Quarantined : \A r \in Ranges :
            (b.base <= r[1] /\ r[2] <= b.base + b.size)
               => \A o \in overlaps_delayed_free(r[1], r[2]) : o.res
      /\ \A r \in Ranges : \A o \in overlaps_delayed_free(r[1], r[2]) :
            o.res => \E b \in Quarantined :
                        Overlap(r[1], r[2], b.real_base, b.real_base + AppRealSize(b))

\* C3 (as claimed): for a quarantined block freed with redzones, a range that
\* lies entirely inside the leading or the trailing redzone is no hit, and a
\* range holding a byte of the app range is a hit.
C3_RedzoneAsClaimed ==
    QuarantineOn =>
      \A b \in Quarantined : \A r \in Ranges :
         LET n == [base |-> b.real_base, size |-> AppRealSize(b),
                   client |-> TreeClient(b.base, b.real_base)]
             in_lead == b.real_base <= r[1] /\ r[2] <= b.base
             in_trail == b.base + b.size <= r[1]
                         /\ r[2] <= b.real_base + AppRealSize(b)
         IN (b.base # b.real_base /\ n \in delay_free_tree) =>
              /\ (in_lead \/ in_trail) => ~OverlapHit(n, r[1], r[2])
              /\ Overlap(r[1], r[2], b.base, b.base + b.size)
                    => OverlapHit(n, r[1], r[2])

C5_ReturnValue ==
    [][(last'.op = "free") =>
         IF QuarantineOn
         THEN \/ last'.ret = NULL
              \/ /\ last'.ret \in PendingBases
                 /\ last'.ret \notin PendingBases'
                 /\ last'.ret # last'.blk.real_base
         ELSE last'.ret = last'.blk.real_base]_vars

C5_Witness ==
    /\ QuarantineOn
    /\ last.op = "free"
    /\ last.ret # NULL
    /\ last.ret # last.blk.real_base

\* C6: between handler calls the bases of the nodes of delay_free_tree are the
\* non-NULL addr values of delay_free_list[0 .. delay_free_fill), and each
\* node's size is the real size of the block recorded at that base.
C6_TreeMirrorsList ==
    /\ {n.base : n \in delay_free_tree} =
          {delay_free_list[i].addr : i \in {j \in Slots : j < delay_free_fill}} \ {NULL}
    /\ \A n \in delay_free_tree :
          \E b \in Quarantined : b.real_base = n.base /\ n.size = AppRealSize(b)
    /\ Cardinality(delay_free_tree) = Cardinality(Quarantined)

C6_Witness ==
    /\ delay_free_tree # {}
    /\ \E i \in Slots : i < delay_free_fill /\ delay_free_list[i].addr = NULL
    /\ last.op = "free"
    /\ last.ret # NULL

\* C7: with a quarantine of capacity delay_frees >= 1, 0 <= delay_free_fill <=
\* delay_frees and 0 <= delay_free_head < delay_frees; the tree never holds more
\* than delay_frees entries; when the queue is full the slot at delay_free_head
\* is the oldest entry; delay_free_fill never decreases and delay_free_head
\* changes only when the queue is full.
C7_State ==
    options.delay_frees >= 1 =>
      /\ 0 <= delay_free_fill /\ delay_free_fill <= options.delay_frees
      /\ 0 <= delay_free_head /\ delay_free_head < options.delay_frees
      /\ Cardinality(delay_free_tree) <= options.delay_frees
      /\ Len(recent) = delay_free_fill
      /\ delay_free_fill = options.delay_frees =>
            /\ delay_free_list[delay_free_head].heap = recent[1].blk.heap
            /\ delay_free_list[delay_free_head].addr = recent[1].blk.real_base

InCritical ==
    {t \in Threads : thr[t].pc \in {"free_critical", "free_unlock",
                                    "ov_query", "ov_unlock"}}

\* real_base of the block a returning overlaps_delayed_free call reports
ReportedBase(t) == thr[t].out.free_start - options.redzone_size

\* C8: under any interleaving of client_handle_free and overlaps_delayed_free
\* on different threads, a block is never seen as in the quarantine and
\* recycled at the same time: only the holder of delay_free_lock is inside a
\* protected section, a block that a client_handle_free call hands back for
\* the real free has left the tree before the lock is released, and a block
\* that an overlaps_delayed_free call reports is, when the call returns,
\* still pending in the quarantine and handed back by no call.
C8_NotQuarantinedAndRecycled ==
    /\ \A t \in InCritical : delay_free_lock = t
    /\ \A u \in Threads :
          thr[u].pc = "free_unlock" /\ thr[u].pass_to_free # NULL
             => /\ rb_find(delay_free_tree, thr[u].pass_to_free) = {}
                /\ thr[u].pass_to_free \notin PendingBases
    /\ \A t \in Threads :
          thr[t].pc = "ov_unlock" /\ thr[t].out.res
             => /\ rb_find(delay_free_tree, ReportedBase(t)) # {}
                /\ ReportedBase(t) \in PendingBases
                /\ \A u \in Threads : thr[u].pass_to_free # ReportedBase(t)

C8_Witness ==
    \E t \in Threads : \E u \in Threads :
        /\ t # u
        /\ options.delay_frees >= 2
        /\ delay_free_head # 0
        /\ thr[t].pc = "ov_unlock"
        /\ thr[t].out.res
        /\ thr[u].pc = "free_lock"

\* C9: alloc_stack_table holds no two callstacks with equal content, its size
\* is the number of distinct contents that have a live allocation record, and
\* each stored callstack's reference count is 1 plus the number of live
\* allocation records whose client data it is.
C9_PoolInvariant ==
    /\ \A a \in alloc_stack_table : \A b \in alloc_stack_table :
          callstacks[a].content = callstacks[b].content => a = b
    /\ Cardinality(alloc_stack_table) =
          Cardinality({callstacks[h].content : h \in LiveRecords})
    /\ \A h \in alloc_stack_table :
          /\ Allocated(callstacks, h)
          /\ callstacks[h].refcount = 1 + malloc_table[h]

C9_Witness ==
    /\ Cardinality(alloc_stack_table) = 2
    /\ \E h \in alloc_stack_table : callstacks[h].refcount = 4
    /\ last.op = "add_malloc_pre"

\* C10: a callstack stays in alloc_stack_table (and allocated) while an
\* allocation record references it; the client_malloc_data_free call that drops
\* its count to 1 removes it from the table and that removal frees it; the count
\* returned inside client_malloc_data_free is never 0.
C10_State ==
    /\ \A h \in LiveRecords : Allocated(callstacks, h) /\ h \in alloc_stack_table
    /\ last.op = "malloc_data_free" => last.count # 0
    /\ "refcount should not hit 0 in malloc_table" \notin asserts

C10_Lifetime ==
    /\ []C10_State
    /\ [][\A h \in Pcs :
            (malloc_table[h] > 0 /\ malloc_table'[h] < malloc_table[h]) =>
               /\ h \in alloc_stack_table
               /\ IF callstacks[h].refcount - 1 = 1
                  THEN /\ h \notin alloc_stack_table'
                       /\ ~Allocated(callstacks', h)
                       /\ malloc_table'[h] = 0
                  ELSE /\ h \in alloc_stack_table'
                       /\ Allocated(callstacks', h)]_vars

C10_Witness ==
    /\ last.op = "malloc_data_free"
    /\ last.count = 1
    /\ ~Allocated(callstacks, last.data)
    /\ last.data \notin alloc_stack_table
    /\ alloc_stack_table # {}

\* C11: after any sequence of mmap_tree_add calls no two intervals stored in
\* the anonymous-map tree overlap or touch (an added range that overlaps or is
\* adjacent to a stored interval is coalesced with it).
C11_NoOverlapNoTouch ==
    \A n \in mmap_tree : \A m \in mmap_tree :
        n # m => \/ n.base + n.size < m.base
                 \/ m.base + m.size < n.base

\* C12: every mmap_tree_add call (made for an anonymous mapping) leaves the
\* union of the stored intervals equal to the union before the call plus the
\* added range, also when the range overlaps two or more stored intervals, so
\* every address of the added range is covered; and mmap_anon_lookup succeeds
\* exactly for the covered addresses, returning a stored interval that
\* contains the address.
C12_UnionAsClaimed ==
    [][/\ \A r \in MemRanges : \A h \in {0, 1} :
             last'.op = "mmap" /\ client_handle_mmap(h, r[1], r[2], TRUE)
                => Covered(mmap_tree') = Covered(mmap_tree) \cup Range(r[1], r[2])
       /\ \A a \in Mem :
             last'.op = "lookup" /\ mmap_anon_lookup(a)
                => /\ last'.res = (a \in Covered(mmap_tree))
                   /\ last'.res => /\ a \in Range(last'.start, last'.size)
                                   /\ \E n \in mmap_tree :
                                         /\ n.base = last'.start
                                         /\ n.size = last'.size]_vars

\* C13: mmap_tree_remove(base, size) returns true iff some stored interval
\* intersects [base, base+size); after the call no stored interval intersects
\* the range, and every address outside the range is covered after the call
\* iff it was covered before.
C13_RemoveSplits ==
    [][\A r \in MemRanges :
          last'.op = "munmap" /\ client_handle_munmap(r[1], r[2])
             => /\ last'.res =
                      (\E n \in mmap_tree :
                          Range(n.base, n.size) \cap Range(r[1], r[2]) # {})
                /\ \A n \in mmap_tree' :
                      Range(n.base, n.size) \cap Range(r[1], r[2]) = {}
                /\ Covered(mmap_tree') \ Range(r[1], r[2])
                      = Covered(mmap_tree) \ Range(r[1], r[2])]_vars

\* a removal from the middle has left residuals on both sides
C13_Witness ==
    /\ last.op = "munmap"
    /\ last.res
    /\ Cardinality(mmap_tree) = 2
    /\ Covered(mmap_tree) = {1, 3}

\* C18: client_handle_mmap for an anonymous mapping sets the shadow of
\* [base, base+size) to DEFINED when the thread is not inside an allocator
\* routine and shadowing is on, leaves the shadow of the range unchanged when
\* the thread is inside an allocator routine, and in both cases records
\* [base, base+size) in the anonymous-map tracker.
C18_AnonMmapAsClaimed ==
    [][\A r \in MemRanges : \A h \in {0, 1} :
          last'.op = "mmap" /\ client_handle_mmap(h, r[1], r[2], TRUE)
             => /\ h = 0 /\ ~options.leaks_only /\ options.shadowing
                      => \A a \in Range(r[1], r[2]) : shadow'[a] = SHADOW_DEFINED
                /\ h # 0 => \A a \in Range(r[1], r[2]) : shadow'[a] = shadow[a]
                /\ Range(r[1], r[2]) \subseteq Covered(mmap_tree')]_vars

C20_MremapAsClaimed ==
    [][\A o \in MemRanges : \A n \in MemRanges : \A image \in BOOLEAN :
          (/\ last'.op = "mremap"
           /\ n[1] = o[1] \/ Range(o[1], o[2]) \cap Range(n[1], n[2]) = {}
           /\ client_handle_mremap(o[1], o[2], n[1], n[2], image))
          => /\ ~options.leaks_only /\ options.shadowing
                => /\ \A i \in 0..((IF n[2] < o[2] THEN n[2] ELSE o[2]) - 1) :
                         shadow'[n[1] + i] = shadow[o[1] + i]
                   /\ n[2] < o[2]
                         => \A a \in Range(o[1] + n[2], o[2] - n[2]) :
                                shadow'[a] = SHADOW_UNADDRESSABLE
                   /\ n[2] > o[2]
                         => \A a \in Range(n[1] + o[2], n[2] - o[2]) :
                                shadow'[a] = IF image THEN SHADOW_DEFINED
                                             ELSE SHADOW_UNDEFINED
             /\ Range(n[1], n[2]) \subseteq Covered(mmap_tree')
             /\ Covered(mmap_tree') \cap (Range(o[1], o[2]) \ Range(n[1], n[2]))
                   = {}]_vars

\* Shadow memory is maintained: !options.leaks_only && options.shadowing.
ShadowingOn == ~options.leaks_only /\ options.shadowing

\* the block a malloc or realloc step has added, and the one a realloc or free
\* step has retired
NewBlocks == live' \ live

OldBlocks == live \ live'

\* C14 as stated: for a block with shadowing on, after client_handle_malloc
\* every byte is UNDEFINED (DEFINED if zeroed); after client_handle_free every
\* byte is UNADDRESSABLE and stays so until the next client_handle_malloc that
\* covers it.
C14_LifecycleAsClaimed ==
    /\ [](ShadowingOn => \A a \in freed : shadow[a] = SHADOW_UNADDRESSABLE)
    /\ [][ShadowingOn
            => /\ last'.op = "malloc"
                  => \A b \in NewBlocks : \A a \in Range(b.base, b.size) :
                        shadow'[a] = IF last'.zeroed THEN SHADOW_DEFINED
                                     ELSE SHADOW_UNDEFINED
               /\ last'.op = "free"
                  => \A b \in OldBlocks : \A a \in Range(b.base, b.size) :
                        shadow'[a] = SHADOW_UNADDRESSABLE
               /\ \A a \in freed :
                     shadow'[a] # SHADOW_UNADDRESSABLE
                        => /\ last'.op = "malloc"
                           /\ \E b \in NewBlocks : a \in Range(b.base, b.size)]_vars

\* C14, amended: for a block with shadowing on, after client_handle_malloc
\* every byte is UNDEFINED (DEFINED if zeroed); after client_handle_free every
\* byte is UNADDRESSABLE and stays so until the next client_handle_malloc, or
\* client_handle_realloc with a new block, that covers it.
C14_Lifecycle ==
    /\ [](ShadowingOn => \A a \in freed : shadow[a] = SHADOW_UNADDRESSABLE)
    /\ [][ShadowingOn
            => /\ last'.op = "malloc"
                  => \A b \in NewBlocks : \A a \in Range(b.base, b.size) :
                        shadow'[a] = IF last'.zeroed THEN SHADOW_DEFINED
                                     ELSE SHADOW_UNDEFINED
               /\ last'.op = "free"
                  => \A b \in OldBlocks : \A a \in Range(b.base, b.size) :
                        shadow'[a] = SHADOW_UNADDRESSABLE
               /\ \A a \in freed :
                     shadow'[a] # SHADOW_UNADDRESSABLE
                        => /\ last'.op \in {"malloc", "realloc"}
                           /\ \E b \in NewBlocks : a \in Range(b.base, b.size)]_vars

\* a zeroed block is live at the lowest address, next to a byte that was
\* freed and has not been allocated again
C14_Witness ==
    /\ ShadowingOn
    /\ last.op = "malloc"
    /\ last.zeroed
    /\ freed = {2}
    /\ live = {[base |-> 1, size |-> 1]}
    /\ shadow[1] = SHADOW_DEFINED
    /\ shadow[2] = SHADOW_UNADDRESSABLE

\* C15: after client_handle_realloc (shadowing on), for every relative
\* position of the two blocks, every byte of the old block that is not in the
\* new block is UNADDRESSABLE, and if the block grew every byte of
\* [new_base + old_size, new_base + new_size) is UNDEFINED.
C15_ReallocAbandoned ==
    [][ShadowingOn /\ last'.op = "realloc"
          => \A o \in OldBlocks : \A n \in NewBlocks :
                /\ \A a \in Range(o.base, o.size) \ Range(n.base, n.size) :
                      shadow'[a] = SHADOW_UNADDRESSABLE
                /\ n.size > o.size
                      => \A a \in Range(n.base + o.size, n.size - o.size) :
                            shadow'[a] = SHADOW_UNDEFINED]_vars

\* a block has moved to a larger new block right after the old one
C15_Witness ==
    /\ ShadowingOn
    /\ last.op = "realloc"
    /\ last.pos = "disjoint"
    /\ last.grew
    /\ \E b \in live : /\ b.base > 1
                       /\ shadow[b.base - 1] = SHADOW_UNADDRESSABLE
                       /\ shadow[b.base + b.size - 1] = SHADOW_UNDEFINED

\* C16 as stated: for a realloc whose new block lies fully inside the old
\* block, the bytes of the old block before new_base and from
\* new_base + new_size on are UNADDRESSABLE and every byte inside the new block
\* has the same tag it had at that address before the realloc; when the new
\* region equals the old one no shadow byte changes.
C16_InsideAsClaimed ==
    [][ShadowingOn /\ last'.op = "realloc"
          => /\ \A o \in OldBlocks : \A n \in NewBlocks :
                   o.base <= n.base /\ n.base + n.size <= o.base + o.size
                      => /\ \A a \in Range(o.base, o.size) \ Range(n.base, n.size) :
                               shadow'[a] = SHADOW_UNADDRESSABLE
                         /\ \A a \in Range(n.base, n.size) : shadow'[a] = shadow[a]
             /\ last'.pos = "same" => shadow' = shadow]_vars

\* C16, amended: for a realloc whose new block lies fully inside the old
\* block, the bytes of the old block before new_base and from
\* new_base + new_size on are UNADDRESSABLE and the byte at each offset of the
\* new block has the tag the byte at that offset of the old block had before
\* the realloc (its own former tag only when new_base = old_base); when the
\* new region equals the old one no shadow byte changes.
C16_Inside ==
    [][ShadowingOn /\ last'.op = "realloc"
          => /\ \A o \in OldBlocks : \A n \in NewBlocks :
                   o.base <= n.base /\ n.base + n.size <= o.base + o.size
                      => /\ \A a \in Range(o.base, o.size) \ Range(n.base, n.size) :
                               shadow'[a] = SHADOW_UNADDRESSABLE
                         /\ \A i \in 0..(n.size - 1) :
                               shadow'[n.base + i] = shadow[o.base + i]
             /\ last'.pos = "same" => shadow' = shadow]_vars

\* a block of three bytes has been cut down to its middle byte
C16_Witness ==
    /\ ShadowingOn
    /\ last.op = "realloc"
    /\ last.pos = "new inside old"
    /\ live = {[base |-> 2, size |-> 1]}
    /\ shadow[1] = SHADOW_UNADDRESSABLE
    /\ shadow[2] = SHADOW_DEFINED
    /\ shadow[3] = SHADOW_UNADDRESSABLE

\* C17: under any interleaving of allocator events handled on different
\* threads, once the handlers involved have returned every byte of a live
\* heap allocation has a tag other than UNADDRESSABLE.
C17_LiveAddressableAsClaimed ==
    ShadowingOn /\ (\A t \in Threads : thr[t].pc = "idle")
       => \A b \in live : \A a \in Range(b.base, b.size) :
             shadow[a] # SHADOW_UNADDRESSABLE

\* C21: after a client_handle_mremap that moves a mapping (new range disjoint
\* from the old range, shadowing on), every byte of the old range is
\* UNADDRESSABLE.
C21_MovedOldUnaddressableAsClaimed ==
    [][\A o \in MemRanges : \A n \in MemRanges : \A image \in BOOLEAN :
          (/\ last'.op = "mremap"
           /\ ShadowingOn
           /\ Range(o[1], o[2]) \subseteq Covered(mmap_tree)
           /\ ~Overlap(o[1], o[1] + o[2], n[1], n[1] + n[2])
           /\ client_handle_mremap(o[1], o[2], n[1], n[2], image))
             => \A a \in Range(o[1], o[2]) : shadow'[a] = SHADOW_UNADDRESSABLE]_vars

\* the signal frame a handler entry at stack pointer esp marked, up to top
FrameBytes(esp, top) == {a \in Addr : esp <= a /\ a < top}

\* a step is client_pre_syscall for sigreturn
SigreturnStep == last'.op = "pre_syscall" /\ last'.sysnum = SYS_rt_sigreturn

\* a step is the sigreturn of the innermost handler
MatchedSigreturn == SigreturnStep /\ InHandler /\ Len(sigs') < Len(sigs)

\* a step is the handler entry of the delivered signal
SignalEntry == AwaitingHandler /\ InHandler' /\ Len(sigs') = Len(sigs)

\* C22: for a signal delivered to a thread (event_signal_alloc, then
\* at_signal_handler, then the sigreturn pre-syscall handling), every byte that
\* at_signal_handler set to DEFINED is UNADDRESSABLE after the sigreturn
\* handling, for every stack pointer the thread may have at sigreturn, and no
\* other shadow byte is changed by the three steps.
C22_RoundTripAsClaimed ==
    [][ShadowingOn /\ delivered = 1 /\ MatchedSigreturn
          => \A a \in Addr :
                IF a \in FrameBytes(Innermost.handler_esp, Innermost.frame_top)
                THEN shadow'[a] = SHADOW_UNADDRESSABLE
                ELSE shadow'[a] = Innermost.before[a]]_vars

\* frame_top as the claim gives it, for a handler entered at xsp
ClaimedFrameTop(xsp) ==
    IF /\ cpt.sigaltstack # NULL
       /\ cpt.sigaltstack - cpt.sigaltsize <= xsp
       /\ xsp < cpt.sigaltstack
    THEN IF cpt.signal_xsp > xsp /\ cpt.signal_xsp < cpt.sigaltstack
         THEN cpt.signal_xsp
         ELSE cpt.sigaltstack
    ELSE cpt.signal_xsp

\* C23: at signal-handler entry, if an altstack is configured and the current
\* xsp lies inside it, frame_top is the altstack top, unless signal_xsp is
\* above the current xsp and below the altstack top (a nested signal on the
\* altstack), in which case frame_top is signal_xsp; in every other case
\* frame_top is signal_xsp.  The shadow of [xsp, frame_top) becomes DEFINED
\* and frame_top is stored as sigframe_top.
C23_FrameTopAsClaimed ==
    [][ShadowingOn /\ SignalEntry
          => LET xsp == Innermost'.handler_esp
                 frame_top == ClaimedFrameTop(xsp)
             IN /\ cpt'.sigframe_top = frame_top
                /\ shadow' = [a \in Addr |-> IF a \in FrameBytes(xsp, frame_top)
                                             THEN SHADOW_DEFINED ELSE shadow[a]]]_vars

\* C24: for a thread that has entered a signal handler, signal_xsp captured at
\* delivery is >= handler_esp, the recorded frame top is >= handler_esp, and
\* every byte of [handler_esp, frame_top) is DEFINED, with and without an
\* altstack, wherever the altstack lies.
C24_FrameDefinedAsClaimed ==
    ShadowingOn /\ InHandler /\ Len(sigs) = delivered
       => /\ Innermost.signal_xsp >= Innermost.handler_esp
          /\ cpt.sigframe_top >= Innermost.handler_esp
          /\ \A a \in FrameBytes(Innermost.handler_esp, cpt.sigframe_top) :
                shadow[a] = SHADOW_DEFINED

C26_NestedOwnFrameAsClaimed ==
    [][ShadowingOn /\ MatchedSigreturn
          => \A xsp \in Innermost.handler_esp..Innermost.top :
                client_pre_syscall(SYS_rt_sigreturn, xsp, NoStackArg)
                   => \A a \in FrameBytes(xsp, Innermost.frame_top) :
                         shadow'[a] = SHADOW_UNADDRESSABLE]_vars

\* C27: a sigaltstack syscall that fails (non-zero result in
\* client_post_syscall) leaves the recorded altstack (sigaltstack, sigaltsize)
\* and the shadow memory exactly as they were before client_pre_syscall
\* handled the call.
C27_FailedSigaltstackAsClaimed ==
    last.op = "post_syscall" /\ last.sysnum = SYS_sigaltstack /\ last.result # 0
       => /\ cpt.sigaltstack = last.cpt0.sigaltstack
          /\ cpt.sigaltsize = last.cpt0.sigaltsize
          /\ shadow = last.shadow0


\* the heap-header rule applies to the access
HeapRuleApplies == fault.in_heap_region /\ fault.in_heap_routine > 0

\* the build has the TLS rule and the address is inside a TLS slot
TlsRuleApplies == fault.platform = "WINDOWS" /\ fault.tls.array # "none"

\* the build has the loader rule and it matches
LoaderRuleMatches == fault.platform = "LINUX" /\ is_loader_exception(fault)

\* one of the alloca, strlen, strcpy, rawmemchr rules matches the code at pc
PatternRuleMatches ==
    \/ is_alloca_pattern(fault, FALSE).match
    \/ is_strlen_pattern(fault, FALSE).match
    \/ is_strcpy_pattern(fault, FALSE).match
    \/ is_rawmemchr_pattern(fault, FALSE).match

PatternsConsulted ==
    last.consulted \cap {"alloca", "strlen", "strcpy", "rawmemchr"}

\* C28 as stated: check_unaddressable_exceptions returns true whenever the
\* address is inside a known heap region and the thread is inside an allocator
\* routine, without consulting any later rule; an address inside a TLS slot is
\* suppressed iff the slot is allocated, and no pattern rule is consulted for
\* it; otherwise the result is true iff the loader rule or one of the alloca,
\* strlen, strcpy, rawmemchr rules matches, and false for a location that is
\* not a PC.
C28_ResultAsClaimed ==
    last.op = "unaddr"
       => /\ HeapRuleApplies => last.result /\ last.consulted = {"heap"}
          /\ ~HeapRuleApplies /\ TlsRuleApplies
                => /\ last.result <=> fault.tls.bit
                   /\ PatternsConsulted = {}
          /\ ~HeapRuleApplies /\ ~TlsRuleApplies
                => /\ fault.loc = "APP_LOC_PC"
                      => (last.result <=> LoaderRuleMatches \/ PatternRuleMatches)
                   /\ fault.loc # "APP_LOC_PC" => ~last.result

\* C28, amended: check_unaddressable_exceptions returns true whenever the
\* address is inside a known heap region and the thread is inside an allocator
\* routine, without consulting any later rule; an address inside a TLS slot is
\* suppressed iff the slot is allocated, and no pattern rule is consulted for
\* it; otherwise the result is true iff the loader rule matches, or the
\* accessed byte and the pc are readable memory and one of the alloca, strlen,
\* strcpy, rawmemchr rules matches, and false for a location that is not a PC.
C28_Result ==
    last.op = "unaddr"
       => /\ HeapRuleApplies => last.result /\ last.consulted = {"heap"}
          /\ ~HeapRuleApplies /\ TlsRuleApplies
                => /\ last.result <=> fault.tls.bit
                   /\ PatternsConsulted = {}
          /\ ~HeapRuleApplies /\ ~TlsRuleApplies
                => /\ fault.loc = "APP_LOC_PC"
                      => (last.result <=>
                             \/ LoaderRuleMatches
                             \/ /\ fault.addr_readable
                                /\ PcReadable(fault)
                                /\ PatternRuleMatches)
                   /\ fault.loc # "APP_LOC_PC" => ~last.result

\* a stack probe by code of libc to an unreadable byte inside a tool library
\* has gone past the heap and loader rules and is not suppressed, no pattern
\* rule having been tried
C28_Witness ==
    /\ last.op = "unaddr"
    /\ fault.platform = "LINUX"
    /\ fault.loc = "APP_LOC_PC"
    /\ fault.addr_in_lib
    /\ fault.pc_module.found
    /\ ~HeapRuleApplies
    /\ ~fault.addr_readable
    /\ is_alloca_pattern(fault, FALSE).match
    /\ ~last.result
    /\ last.consulted = {"heap", "loader"}

\* C29: check_unaddressable_exceptions changes shadow memory only by upgrading
\* the single accessed byte to UNDEFINED, and only when the matching rule
\* reports now-addressable; a match that does not report it, such as the
\* stack probe test [ecx],eax followed by cmp eax,imm, suppresses the access
\* and leaves every shadow byte unchanged, as does a call that matches no rule.
C29_ShadowEffect ==
    [][last'.op = "unaddr"
          => /\ \/ shadow' = shadow
                \/ /\ last'.result
                   /\ last'.now_addressable
                   /\ shadow' = [shadow EXCEPT ![fault.addr] = SHADOW_UNDEFINED]
             /\ last'.result /\ ~last'.now_addressable => shadow' = shadow
             /\ (/\ last'.matched = "alloca"
                 /\ fault.inst = Code.test_ecx_eax.bytes
                 /\ fault.next = Code.cmp_eax_imm.bytes)
                   => last'.result /\ shadow' = shadow
             /\ ~last'.result => shadow' = shadow]_vars

\* the stack probe has been suppressed in the middle of memory that is in use
C29_Witness ==
    /\ last.op = "unaddr"
    /\ last.result
    /\ last.matched = "alloca"
    /\ fault.inst = Code.test_ecx_eax.bytes
    /\ fault.next = Code.cmp_eax_imm.bytes
    /\ fault.addr = 2
    /\ shadow[1] = SHADOW_DEFINED
    /\ shadow[2] = SHADOW_UNADDRESSABLE
    /\ shadow[3] = SHADOW_DEFINED

\* C30: for an access whose address is 4-byte aligned, the rawmemchr/strchr
\* rule never matches, and neither do the strlen and strcpy word-load rules:
\* such an access with the rawmemchr shape is not suppressed by a string rule.
C30_AlignedNoStringRule ==
    last.op = "pattern" /\ ALIGNED(fault.addr, 4)
       => /\ ~is_rawmemchr_pattern(fault, FALSE).match
          /\ ~is_strlen_pattern(fault, FALSE).match
          /\ ~is_strcpy_pattern(fault, FALSE).match
          /\ last.matched \notin {"strlen", "strcpy", "rawmemchr"}

\* the rawmemchr load and its magic constant at an aligned address, with
\* everything readable, have gone through every rule and are not suppressed
C30_Witness ==
    /\ last.op = "pattern"
    /\ ALIGNED(fault.addr, 4)
    /\ fault.addr_readable
    /\ fault.code = "mid"
    /\ fault.inst = Code.mov_ecx_eax.bytes
    /\ fault.next = Code.mov_edx_fefefeff.bytes
    /\ last.consulted = {"alloca", "strlen", "strcpy", "rawmemchr"}
    /\ ~last.result

\* the reads among the accesses a whose bytes are not all inside a range that
\* an earlier probe of a found readable
Unprobed(a) ==
    {i \in DOMAIN a :
        /\ a[i].kind = "read"
        /\ \E o \in a[i].lo..(a[i].hi - 1) :
              ~\E j \in 1..(i - 1) : /\ a[j].kind = "probe"
                                     /\ a[j].ok
                                     /\ a[j].lo <= o
                                     /\ o < a[j].hi}

\* C31: every byte the exception recognizer reads at an
\* application-controlled address during one call (the faulting instruction
\* decoded at pc, the raw bytes before pc, the raw bytes at the next pc, and
\* every following instruction it decodes) lies inside a range for which a
\* dr_memory_is_readable probe has already succeeded in that call.
C31_ReadsProbedAsClaimed ==
    last.op = "pattern" => Unprobed(Accesses(fault)) = {}

\* C32: for every allocator event handled on a thread (client_handle_malloc,
\* client_handle_realloc, client_handle_free), all shadow writes for the
\* event are performed before the reporter (report_malloc) is called for
\* that event: once the reporter has been called, the rest of the handler
\* writes no shadow memory.
C32_WritesBeforeReportAsClaimed ==
    [][ReportedMidHandler => shadow' = shadow]_vars


\* the locks thread t holds
HeldBy(t) ==
    {l \in {"delay_free_lock", "mmap_tree_lock"} :
        \/ l = "delay_free_lock" /\ delay_free_lock = t
        \/ l = "mmap_tree_lock" /\ mmap_tree_lock = t}

\* C33: in every interleaving of threads running mmap_tree_add,
\* mmap_tree_remove, mmap_anon_lookup, client_handle_free,
\* client_handle_heap_destroy and overlaps_delayed_free: the step that calls
\* the reporter is taken by a thread that holds no lock; a thread that takes a
\* lock holds no lock before; a thread that has returned holds no lock; and a
\* thread inside a handler can take a step unless the lock it waits for is
\* held by another thread, which can then take a step itself.
C33_LockDiscipline ==
    /\ [](\A t \in Threads :
             /\ thr[t].pc = "idle" => HeldBy(t) = {}
             /\ thr[t].pc # "idle" =>
                   \/ ENABLED LockStep(t)
                   \/ \E u \in Threads \ {t} :
                         /\ HeldBy(u) # {}
                         /\ thr[t].pc = "free_lock"
                         /\ ENABLED LockStep(u))
    /\ [][\A t \in Threads :
             /\ FreeEnter(t) => HeldBy(t) = {}
             /\ HeldBy(t)' # HeldBy(t) /\ HeldBy(t)' # {} => HeldBy(t) = {}]_vars

\* one thread is inside client_handle_heap_destroy with delay_free_lock held
\* while the other waits for that lock in client_handle_free
C33_Witness ==
    \E t \in Threads : \E u \in Threads \ {t} :
        /\ delay_free_lock = t
        /\ thr[t].pc = "destroy_unlock"
        /\ thr[u].pc = "free_lock"
        /\ asserts = {}


\* the slots client_handle_heap_destroy(heap) visits and invalidates
DestroyedSlots(heap) ==
    {i \in Slots : i < delay_free_fill /\ delay_free_list[i].heap = heap}

\* a slot in use whose block went away with its heap
Invalidated(i) == i < delay_free_fill /\ delay_free_list[i].addr = NULL

\* C34: client_handle_heap_destroy(heap) leaves no tree node at the addr of a
\* slot whose recorded heap is the destroyed one and sets the slot's addr to
\* NULL; delay_free_head, delay_free_fill, the other slots and the other tree
\* nodes are unchanged; a later client_handle_free that evicts an invalidated
\* slot returns NULL and removes no node from the tree.
C34_HeapDestroy ==
    [][/\ \A heap \in Heaps :
             last'.op = "heap_destroy" /\ client_handle_heap_destroy(heap) =>
                /\ \A i \in DestroyedSlots(heap) :
                      /\ rb_find(delay_free_tree', delay_free_list[i].addr) = {}
                      /\ delay_free_list'[i].addr = NULL
                      /\ delay_free_list'[i].heap = heap
                /\ \A i \in Slots \ DestroyedSlots(heap) :
                      delay_free_list'[i] = delay_free_list[i]
                /\ delay_free_head' = delay_free_head
                /\ delay_free_fill' = delay_free_fill
                /\ delay_free_tree' \subseteq delay_free_tree
                /\ \A n \in delay_free_tree \ delay_free_tree' :
                      \E i \in DestroyedSlots(heap) : n.base = delay_free_list[i].addr
       /\ (/\ last'.op = "free"
           /\ QuarantineEnabled
           /\ DELAY_FREE_FULL
           /\ Invalidated(delay_free_head)) =>
              /\ last'.ret = NULL
              /\ delay_free_tree \subseteq delay_free_tree']_vars

\* client_handle_heap_destroy has just invalidated the slot the next
\* client_handle_free evicts, and has left another slot and its node alone
C34_Witness ==
    /\ last.op = "heap_destroy"
    /\ DELAY_FREE_FULL
    /\ Invalidated(delay_free_head)
    /\ \E i \in Slots : i < delay_free_fill /\ delay_free_list[i].addr # NULL
    /\ delay_free_tree # {}
    /\ asserts = {}


\* C35: after client_handle_realloc the byte at each offset below
\* min(old_size, new_size) of the new block has the tag the byte at that
\* offset of the old block had before the call, whether or not the two blocks
\* overlap.
C35_TagsMove ==
    [][last'.op = "realloc"
          => \A o \in OldBlocks : \A n \in NewBlocks :
                \A i \in 0..(n.size - 1) : i < o.size =>
                    shadow'[n.base + i] = shadow[o.base + i]]_vars

\* a block of two bytes with the tags DEFINED, UNDEFINED has moved up by one
\* byte, onto its own second byte
C35_Witness ==
    /\ ShadowingOn
    /\ last.op = "realloc"
    /\ last.pos = "new after old"
    /\ live = {[base |-> 2, size |-> 2]}
    /\ shadow[1] = SHADOW_UNADDRESSABLE
    /\ shadow[2] = SHADOW_DEFINED
    /\ shadow[3] = SHADOW_UNDEFINED


\* the walk ends within the length limit
KiBounded(esp) == cpt'.pre_callback_esp - esp < TYPICAL_STACK_MIN_SIZE

\* the walk does not go past the first addressable byte or the stack base:
\* every byte it has walked over was unaddressable and below the base
KiStops(esp, base_esp) ==
    \A a \in Addr :
        esp <= a /\ a < cpt'.pre_callback_esp =>
            /\ shadow[a] = SHADOW_UNADDRESSABLE
            /\ esp < base_esp => a < base_esp

\* the bytes walked over are DEFINED and the others keep their tag
KiMarks(esp) ==
    \A a \in Addr :
        shadow'[a] = IF esp <= a /\ a < cpt'.pre_callback_esp /\
                        shadow[a] = SHADOW_UNADDRESSABLE
                     THEN SHADOW_DEFINED
                     ELSE shadow[a]

\* C36 as stated: client_handle_Ki marks UNADDRESSABLE bytes DEFINED from the
\* stack pointer up and stops at the first byte that is already addressable or
\* at the stack base, whichever comes first, and after fewer than
\* TYPICAL_STACK_MIN_SIZE bytes; bytes that were not UNADDRESSABLE keep their
\* tag; pre_callback_esp is the address where the walk stopped.
C36_KiWalkAsClaimed ==
    [][\A esp \in Addr : \A base_esp \in StackBases :
          ShadowingEnabled /\ last'.op = "Ki" /\ client_handle_Ki(esp, base_esp)
             => /\ KiBounded(esp)
                /\ KiStops(esp, base_esp)
                /\ KiMarks(esp)]_vars


\* C37 as stated: the "delay_free_tree inconsistent" assertions of
\* client_handle_free and client_handle_heap_destroy fire in no sequence of
\* frees of distinct live blocks and heap-destroy events, a second destroy of
\* a heap some of whose slots an earlier destroy has invalidated included.
C37_TreeConsistentAsClaimed == "delay_free_tree inconsistent" \notin asserts


\* C38 as stated: the heap client_handle_free hands back through its heap
\* parameter is the heap recorded when the returned pointer was put in the
\* quarantine (the freed block's own heap when nothing is evicted), and a call
\* for a block of another heap does not hand back a heap H that
\* client_handle_heap_destroy(H) has swept the evicted slot for.
C38_HeapHandedBackAsClaimed ==
    [][last'.op = "free" /\ QuarantineEnabled
          => /\ ~DELAY_FREE_FULL => last'.heap = last'.blk.heap
             /\ DELAY_FREE_FULL /\ last'.ret # NULL =>
                   /\ last'.ret = delay_free_list[delay_free_head].addr
                   /\ last'.heap = delay_free_list[delay_free_head].heap
             /\ \A H \in Heaps :
                   (/\ DELAY_FREE_FULL
                    /\ Invalidated(delay_free_head)
                    /\ delay_free_list[delay_free_head].heap = H
                    /\ last'.blk.heap # H) => last'.heap # H]_vars


\* C39 as stated: when [start, end) intersects the app-visible body of a
\* quarantined block, overlaps_delayed_free(start, end) reports a hit
\* whichever overlapping node the lookup returns, also when the range
\* overlaps the redzone of another quarantined block as well.
C39_BodyHitAsClaimed ==
    QuarantineOn =>
      \A r \in Ranges :
         (\E b \in Quarantined : Overlap(b.base, b.base + b.size, r[1], r[2]))
            => \A o \in overlaps_delayed_free(r[1], r[2]) : o.res


\* C40 as stated: the assertion that follows the re-insertion of the merged
\* interval in mmap_tree_add ("mmap tree error") holds on every call, for
\* every tree and every added range, rb_insert returning NULL when it has
\* inserted and the overlapping node otherwise.
C40_MergeAssertAsClaimed ==
    last.op = "mmap" => last.asserted # "mmap tree error"

====
